---- MODULE Spec2Model ----
(***************************************************************************)
(* Model of the SGU geodata tool server: coordinate validation, corridor   *)
(* and bounding-box geometry, the HTTP transport, the WMS and OGC protocol *)
(* clients and the sguClient facade with its polygon -> bbox fallback.     *)
(*                                                                         *)
(* One call of a handler or facade method is a record of `calls`; the HTTP *)
(* requests it issues are records of `reqs`, in the order of issue.        *)
(* Everything a handler does between two awaits is one atomic step.        *)
(***************************************************************************)
EXTENDS Integers, Sequences, FiniteSets, TLC

VARIABLES calls, reqs

vars == <<calls, reqs>>

(***************************************************************************)
(* Optional values: undefined is the empty sequence.                       *)
(***************************************************************************)
None == <<>>

Some(v) == <<v>>

IsDef(o) == Len(o) > 0

Val(o) == o[1]

OrElse(o, d) == IF IsDef(o) THEN o[1] ELSE d

Reverse(s) == [i \in 1..Len(s) |-> s[Len(s) + 1 - i]]

(***************************************************************************)
(* Thrown values.                                                          *)
(***************************************************************************)
ValidationError(message, field) ==
    [name |-> "ValidationError", message |-> message, field |-> field,
     statusCode |-> -1, upstream |-> ""]

UpstreamApiError(message, statusCode, upstream) ==
    [name |-> "UpstreamApiError", message |-> message, field |-> "",
     statusCode |-> statusCode, upstream |-> upstream]

PlainError(message) ==
    [name |-> "Error", message |-> message, field |-> "",
     statusCode |-> -1, upstream |-> ""]

TypeError(message) ==
    [name |-> "TypeError", message |-> message, field |-> "",
     statusCode |-> -1, upstream |-> ""]

\* The outcome of evaluating something that may throw.
Ok(v) == [ok |-> TRUE, value |-> v, error |-> PlainError("")]

Thrown(e) == [ok |-> FALSE, value |-> None, error |-> e]

(***************************************************************************)
(* lib/coordinates.ts                                                      *)
(***************************************************************************)
CRS_SWEREF99TM == "EPSG:3006"

CRS_WGS84 == "EPSG:4326"

WGS84_BOUNDS == [minLat |-> 55, maxLat |-> 69, minLon |-> 11, maxLon |-> 24]

\* An envelope without its edges.
isValidWgs84Coordinate_Exclusive(latitude, longitude) ==
    /\ latitude > WGS84_BOUNDS.minLat
    /\ latitude < WGS84_BOUNDS.maxLat
    /\ longitude > WGS84_BOUNDS.minLon
    /\ longitude < WGS84_BOUNDS.maxLon

isValidWgs84Coordinate(latitude, longitude) ==
    /\ latitude >= WGS84_BOUNDS.minLat
    /\ latitude <= WGS84_BOUNDS.maxLat
    /\ longitude >= WGS84_BOUNDS.minLon
    /\ longitude <= WGS84_BOUNDS.maxLon

\* Whole degrees on which the projection is tabulated.
LatGrid == {54, 55, 59, 60, 69, 70}

LonGrid == {10, 11, 15, 18, 24, 25}

\* proj4('EPSG:4326', 'EPSG:3006', [lon, lat]): transverse Mercator on GRS80,
\* central meridian 15E, scale 0.9996, false easting 500000, rounded to the
\* metre, tabulated on LatGrid x LonGrid.
Proj4Table ==
    <<54, 10>> :> <<172381, 5995099>> @@
    <<54, 11>> :> <<237868, 5990929>> @@
    <<54, 15>> :> <<500000, 5983522>> @@
    <<54, 18>> :> <<696621, 5987688>> @@
    <<54, 24>> :> <<1089189, 6021090>> @@
    <<54, 25>> :> <<1154454, 6029926>> @@
    <<55, 10>> :> <<180296, 6106230>> @@
    <<55, 11>> :> <<244197, 6102111>> @@
    <<55, 15>> :> <<500000, 6094791>> @@
    <<55, 18>> :> <<691876, 6098908>> @@
    <<55, 24>> :> <<1074900, 6131905>> @@
    <<55, 25>> :> <<1138562, 6140632>> @@
    <<59, 10>> :> <<212910, 6550800>> @@
    <<59, 11>> :> <<270278, 6546930>> @@
    <<59, 15>> :> <<500000, 6540052>> @@
    <<59, 18>> :> <<672320, 6543920>> @@
    <<59, 24>> :> <<1016067, 6574904>> @@
    <<59, 25>> :> <<1073143, 6583092>> @@
    <<60, 10>> :> <<221289, 6661953>> @@
    <<60, 11>> :> <<276980, 6658157>> @@
    <<60, 15>> :> <<500000, 6651411>> @@
    <<60, 18>> :> <<667295, 6655205>> @@
    <<60, 24>> :> <<1000961, 6685591>> @@
    <<60, 25>> :> <<1056351, 6693618>> @@
    <<69, 10>> :> <<300218, 7662507>> @@
    <<69, 11>> :> <<340120, 7659575>> @@
    <<69, 15>> :> <<500000, 7654362>> @@
    <<69, 18>> :> <<619942, 7657294>> @@
    <<69, 24>> :> <<858846, 7680742>> @@
    <<69, 25>> :> <<898430, 7686926>> @@
    <<70, 10>> :> <<309329, 7773697>> @@
    <<70, 11>> :> <<347410, 7770881>> @@
    <<70, 15>> :> <<500000, 7765873>> @@
    <<70, 18>> :> <<614474, 7768690>> @@
    <<70, 24>> :> <<842458, 7791212>> @@
    <<70, 25>> :> <<880225, 7797151>>

proj4(longitude, latitude) == Proj4Table[<<latitude, longitude>>]

OutsideSweden(point) ==
    ValidationError("WGS84 coordinates are outside valid range for Sweden", "coordinates")

\* A conversion that projects without checking the WGS84 envelope.
wgs84ToSweref99_Unchecked(point) ==
    LET result == proj4(point.longitude, point.latitude)
    IN  Ok([x |-> result[1], y |-> result[2]])

wgs84ToSweref99(point) ==
    IF ~isValidWgs84Coordinate(point.latitude, point.longitude)
    THEN Thrown(OutsideSweden(point))
    ELSE LET result == proj4(point.longitude, point.latitude)
         IN  Ok([x |-> result[1], y |-> result[2]])

wgs84BboxToSweref99(bbox) ==
    IF ~isValidWgs84Coordinate(bbox.minLat, bbox.minLon)
    THEN Thrown(ValidationError("WGS84 coordinates are outside valid range for Sweden", "bbox"))
    ELSE IF ~isValidWgs84Coordinate(bbox.maxLat, bbox.maxLon)
    THEN Thrown(ValidationError("WGS84 coordinates are outside valid range for Sweden", "bbox"))
    ELSE IF bbox.minLat >= bbox.maxLat
    THEN Thrown(ValidationError("minLat must be less than maxLat", "bbox"))
    ELSE IF bbox.minLon >= bbox.maxLon
    THEN Thrown(ValidationError("minLon must be less than maxLon", "bbox"))
    ELSE LET minCorner == wgs84ToSweref99([latitude |-> bbox.minLat, longitude |-> bbox.minLon])
             maxCorner == wgs84ToSweref99([latitude |-> bbox.maxLat, longitude |-> bbox.maxLon])
         IN  IF ~minCorner.ok THEN minCorner
             ELSE IF ~maxCorner.ok THEN maxCorner
             ELSE Ok([minX |-> minCorner.value.x, minY |-> minCorner.value.y,
                      maxX |-> maxCorner.value.x, maxY |-> maxCorner.value.y])

\* A conversion that accepts any number of points.
wgs84CoordinatesToSweref99_AnyLength(coords) ==
    LET conv == [i \in 1..Len(coords) |-> wgs84ToSweref99(coords[i])]
        bad  == {i \in 1..Len(coords) : ~conv[i].ok}
    IN  IF bad # {}
        THEN conv[CHOOSE i \in bad : \A j \in bad : i <= j]
        ELSE Ok([i \in 1..Len(coords) |-> conv[i].value])

\* coords.map(wgs84ToSweref99): the first point that throws ends the map.
wgs84CoordinatesToSweref99(coords) ==
    IF Len(coords) < 2
    THEN Thrown(ValidationError("Corridor must have at least 2 coordinate points", "coordinates"))
    ELSE LET conv == [i \in 1..Len(coords) |-> wgs84ToSweref99(coords[i])]
             bad  == {i \in 1..Len(coords) : ~conv[i].ok}
         IN  IF bad # {}
             THEN conv[CHOOSE i \in bad : \A j \in bad : i <= j]
             ELSE Ok([i \in 1..Len(coords) |-> conv[i].value])

(***************************************************************************)
(* lib/geometry-utils.ts                                                   *)
(***************************************************************************)
SWEREF99TM_BOUNDS ==
    [minX |-> 200000, maxX |-> 1000000, minY |-> 6100000, maxY |-> 7700000]

isValidSwedishCoordinate(x, y) ==
    /\ x >= SWEREF99TM_BOUNDS.minX
    /\ x <= SWEREF99TM_BOUNDS.maxX
    /\ y >= SWEREF99TM_BOUNDS.minY
    /\ y <= SWEREF99TM_BOUNDS.maxY

\* A validateBbox that looks at the min corner only.
validateBbox_MinCornerOnly(bbox) ==
    IF bbox.minX >= bbox.maxX
    THEN Thrown(ValidationError("minX must be less than maxX", "bbox"))
    ELSE IF bbox.minY >= bbox.maxY
    THEN Thrown(ValidationError("minY must be less than maxY", "bbox"))
    ELSE IF ~isValidSwedishCoordinate(bbox.minX, bbox.minY)
    THEN Thrown(ValidationError("Coordinates are outside valid SWEREF99TM range for Sweden", "bbox"))
    ELSE Ok(TRUE)

\* validateBbox returns nothing; Ok(TRUE) stands for the normal return.
validateBbox(bbox) ==
    IF bbox.minX >= bbox.maxX
    THEN Thrown(ValidationError("minX must be less than maxX", "bbox"))
    ELSE IF bbox.minY >= bbox.maxY
    THEN Thrown(ValidationError("minY must be less than maxY", "bbox"))
    ELSE IF ~isValidSwedishCoordinate(bbox.minX, bbox.minY)
    THEN Thrown(ValidationError("Coordinates are outside valid SWEREF99TM range for Sweden", "bbox"))
    ELSE IF ~isValidSwedishCoordinate(bbox.maxX, bbox.maxY)
    THEN Thrown(ValidationError("Coordinates are outside valid SWEREF99TM range for Sweden", "bbox"))
    ELSE Ok(TRUE)

\* `${minX},${minY},${maxX},${maxY}`: the comma-joined list, in this order.
bboxToString(bbox) == <<bbox.minX, bbox.minY, bbox.maxX, bbox.maxY>>

MinOf(S) == CHOOSE m \in S : \A n \in S : m <= n

MaxOf(S) == CHOOSE m \in S : \A n \in S : m >= n

\* An envelope of the first and the last vertex only.
corridorToBoundingBox_EndsOnly(corridor) ==
    IF Len(corridor.coordinates) < 2
    THEN Thrown(ValidationError("Corridor must have at least 2 coordinate pairs", "corridor"))
    ELSE LET n == Len(corridor.coordinates)
             xs == {corridor.coordinates[i].x : i \in {1, n}}
             ys == {corridor.coordinates[i].y : i \in {1, n}}
             buffer == corridor.bufferMeters
         IN  Ok([minX |-> MinOf(xs) - buffer, minY |-> MinOf(ys) - buffer,
                 maxX |-> MaxOf(xs) + buffer, maxY |-> MaxOf(ys) + buffer])

\* An envelope whose sides move inward by the buffer.
corridorToBoundingBox_Inward(corridor) ==
    IF Len(corridor.coordinates) < 2
    THEN Thrown(ValidationError("Corridor must have at least 2 coordinate pairs", "corridor"))
    ELSE LET xs == {corridor.coordinates[i].x : i \in 1..Len(corridor.coordinates)}
             ys == {corridor.coordinates[i].y : i \in 1..Len(corridor.coordinates)}
             buffer == corridor.bufferMeters
         IN  Ok([minX |-> MinOf(xs) + buffer, minY |-> MinOf(ys) + buffer,
                 maxX |-> MaxOf(xs) - buffer, maxY |-> MaxOf(ys) - buffer])

corridorToBoundingBox(corridor) ==
    IF Len(corridor.coordinates) < 2
    THEN Thrown(ValidationError("Corridor must have at least 2 coordinate pairs", "corridor"))
    ELSE LET xs == {corridor.coordinates[i].x : i \in 1..Len(corridor.coordinates)}
             ys == {corridor.coordinates[i].y : i \in 1..Len(corridor.coordinates)}
             buffer == corridor.bufferMeters
         IN  Ok([minX |-> MinOf(xs) - buffer, minY |-> MinOf(ys) - buffer,
                 maxX |-> MaxOf(xs) + buffer, maxY |-> MaxOf(ys) + buffer])

\* The direction vector (dx, dy) at vertex i: forward difference at the first
\* vertex, backward at the last, sum of both at an interior vertex.
Direction(coords, i) ==
    IF i = 1
    THEN <<coords[2].x - coords[1].x, coords[2].y - coords[1].y>>
    ELSE IF i = Len(coords)
    THEN <<coords[i].x - coords[i - 1].x, coords[i].y - coords[i - 1].y>>
    ELSE <<(coords[i].x - coords[i - 1].x) + (coords[i + 1].x - coords[i].x),
           (coords[i].y - coords[i - 1].y) + (coords[i + 1].y - coords[i].y)>>

\* The point { x: x + side * perpX * buffer, y: y + side * perpY * buffer } with
\* (perpX, perpY) = (-dy / len, dx / len), kept as the terms it is computed from.
OffsetPoint(vertex, dir, side, buffer) ==
    [x |-> vertex.x, y |-> vertex.y, dx |-> dir[1], dy |-> dir[2],
     side |-> side, buffer |-> buffer]

\* The vertices that are not skipped by `if (len === 0) continue`, in order.
NonDegenerate(coords) ==
    SelectSeq([i \in 1..Len(coords) |-> i],
              LAMBDA i : Direction(coords, i) # <<0, 0>>)

corridorToWktPolygon(corridor) ==
    IF Len(corridor.coordinates) < 2
    THEN Thrown(ValidationError("Corridor must have at least 2 coordinate pairs", "corridor"))
    ELSE LET coords == corridor.coordinates
             buffer == corridor.bufferMeters
             kept   == NonDegenerate(coords)
             leftSide  == [k \in 1..Len(kept) |->
                             OffsetPoint(coords[kept[k]], Direction(coords, kept[k]), 1, buffer)]
             rightSide == [k \in 1..Len(kept) |->
                             OffsetPoint(coords[kept[k]], Direction(coords, kept[k]), -1, buffer)]
         IN  IF Len(leftSide) = 0
             \* polygonCoords is [undefined]; destructuring it in map() throws
             THEN Thrown(TypeError("Cannot destructure property 'x' of undefined"))
             ELSE Ok([type |-> "POLYGON",
                      ring |-> leftSide \o Reverse(rightSide) \o <<leftSide[1]>>])

(***************************************************************************)
(* lib/http-client.ts                                                      *)
(***************************************************************************)
DEFAULT_TIMEOUT == 30000

\* The parameters whose values are strings: only these are compared with ''.
StringParams ==
    {"crs", "bbox-crs", "filter-lang", "filter-crs", "SERVICE", "VERSION", "REQUEST",
     "LAYERS", "QUERY_LAYERS", "LAYER", "FORMAT", "INFO_FORMAT", "CRS", "SRS", "TRANSPARENT",
     "map"}

\* A test `if (value)`, which also drops the number 0.
IsSent_Truthy(params, key) ==
    /\ IsDef(params[key])
    /\ (key \in StringParams => Val(params[key]) # "")
    /\ (key \in {"limit", "offset", "WIDTH", "HEIGHT", "X", "Y", "I", "J"} =>
            Val(params[key]) # 0)

\* `value !== undefined && value !== ''`
IsSent(params, key) ==
    /\ IsDef(params[key])
    /\ (key \in StringParams => Val(params[key]) # "")

\* url.searchParams.set(key, String(value)) for every parameter that is sent.
SearchParams(params) ==
    [key \in {k \in DOMAIN params : IsSent(params, k)} |-> Val(params[key])]

\* path === '' uses the base URL verbatim, otherwise the path is joined to
\* the base with exactly one slash.
RequestUrl(baseUrl, path) ==
    IF path = "" THEN <<baseUrl>> ELSE <<baseUrl, "/", path>>

\* A base URL that carries a query string of its own.
MAPFILE_BASE_URL == "https://example.test/cgi-bin/mapserv?map=sgu.map"

\* The search parameters of the URL that is fetched: with an empty path those
\* of the base URL, each replaced by a parameter of the same name that is
\* sent (searchParams.set); with a path the base URL contributes none.
UrlSearchParams(baseUrl, path, params) ==
    LET baseQuery == IF baseUrl = MAPFILE_BASE_URL THEN [key \in {"map"} |-> "sgu.map"]
                     ELSE <<>>
    IN  IF path = "" THEN SearchParams(params) @@ baseQuery ELSE SearchParams(params)

\* The state of one request(): the URL and parameters sent, where the request
\* stands, the timer set by setTimeout, the abort signal, and how it ended.
NewRequest(owner, baseUrl, path, params) ==
    [owner |-> owner, baseUrl |-> baseUrl, url |-> RequestUrl(baseUrl, path),
     params |-> UrlSearchParams(baseUrl, path, params), timeout |-> DEFAULT_TIMEOUT,
     phase |-> "fetching", timer |-> "armed", aborted |-> FALSE,
     overdue |-> FALSE, cause |-> "", status |-> 0, contentType |-> "",
     body |-> None, error |-> PlainError("")]

\* `throw new UpstreamApiError(msg, response.status, baseUrl)` for !response.ok
HttpStatusError(status, baseUrl) ==
    UpstreamApiError(IF status >= 500 THEN "The data service returned an error"
                     ELSE "The data service rejected the request", status, baseUrl)

\* A catch block that rethrows what it caught.
RequestCatch_Rethrow(error, baseUrl) == error

\* The catch block of request(): what it throws for the error it caught.
RequestCatch(error, baseUrl) ==
    IF error.name = "UpstreamApiError" THEN error
    ELSE IF error.name = "AbortError"
    THEN UpstreamApiError("The request timed out", 0, baseUrl)
    ELSE UpstreamApiError("Could not connect to the data service", 0, baseUrl)

IsTextContent(contentType) ==
    contentType \in {"text/plain", "text/xml", "application/xml"}

(***************************************************************************)
(* types/sgu-api.ts                                                        *)
(***************************************************************************)
\* geometryToWkt destructures the geometry; transformBedrockFeature reads
\* feature.properties: a feature without geometry makes it throw.
transformBedrockFeature(feature) ==
    IF feature.geometry = "null"
    THEN Thrown(TypeError("Cannot destructure property 'type' of null"))
    ELSE Ok([id |-> feature.id, geometry_wkt |-> feature.geometry])

\* features.map(transformBedrockFeature), features being response.features
FeaturesMap(features) ==
    IF ~IsDef(features)
    THEN Thrown(TypeError("Cannot read properties of undefined (reading 'map')"))
    ELSE LET fs == Val(features)
             shaped == [k \in 1..Len(fs) |-> transformBedrockFeature(fs[k])]
             bad == {k \in 1..Len(fs) : ~shaped[k].ok}
         IN  IF bad # {}
             THEN shaped[CHOOSE k \in bad : \A j \in bad : k <= j]
             ELSE Ok([k \in 1..Len(fs) |-> shaped[k].value])

\* A shaping that takes an empty features array for a feature.
transformInfo_EmptyIsFound(response) ==
    [isNull |-> ~IsDef(response.features), id |-> 0]

\* transform*Info: null when response.features?.[0] is missing.
transformInfo(response) ==
    IF ~IsDef(response.features) \/ Len(Val(response.features)) = 0
    THEN [isNull |-> TRUE, id |-> 0]
    ELSE [isNull |-> FALSE, id |-> Val(response.features)[1].id]

\* Property values of a GetFeatureInfo feature: a string or a number. A
\* property that is missing from the object is not in its domain.
Str(text) == [kind |-> "string", text |-> text, num |-> 0]

Num(num) == [kind |-> "number", text |-> "", num |-> num]

\* props[key]: undefined when the object has no such property.
Prop(props, key) == IF key \in DOMAIN props THEN Some(props[key]) ELSE None

\* The truthiness of props[key]: undefined, '' and 0 are falsy.
IsTruthy(o) ==
    /\ IsDef(o)
    /\ IF Val(o).kind = "string" THEN Val(o).text # "" ELSE Val(o).num # 0

\* props[keys[1]] || props[keys[2]] || ... : the first truthy operand, or the
\* last operand when none is truthy.
RECURSIVE EitherChain(_, _)
EitherChain(props, keys) ==
    IF Len(keys) = 1 THEN Prop(props, keys[1])
    ELSE IF IsTruthy(Prop(props, keys[1])) THEN Prop(props, keys[1])
    ELSE EitherChain(props, Tail(keys))

\* getNum(...keys) and getStr(...keys) of transformWellPointInfo, and the loop
\* over possibleKeys of transformRadonRiskInfo: the first key whose value has
\* the type asked for.
RECURSIVE getTyped(_, _, _)
getTyped(props, keys, kind) ==
    IF keys = <<>> THEN None
    ELSE IF IsDef(Prop(props, keys[1])) /\ props[keys[1]].kind = kind
    THEN Prop(props, keys[1])
    ELSE getTyped(props, Tail(keys), kind)

\* The candidate names of the fields that have several, in priority order.
CandidateKeys ==
    [soil_type |-> [surface_layer |-> <<"Jordart", "grundlager", "jordart_tx", "jordart">>,
                    raw_soil_type |-> <<"Jordart", "grundlager", "jordart_tx", "jordart">>],
     bedrock |-> [rock_type |-> <<"bergart_tx", "rock_type">>,
                  geological_unit |-> <<"geo_enh_tx", "geological_unit">>],
     soil_depth |-> [depth_class |-> <<"jorddjup", "Jorddjup">>],
     boulder_coverage |-> [coverage_class |-> <<"blockighet", "Blockighet">>],
     groundwater |-> [aquifer_type |-> <<"magasin_tx", "Magasin">>],
     landslide |-> [landslide_type |-> <<"skredtyp", "Skredtyp", "skredtyp_tx">>],
     groundwater_vulnerability |-> [vulnerability_class |-> <<"sarbarhet", "Sarbarhet">>],
     radon_risk |-> [radiation_value |->
                        <<"GRAY_INDEX", "gray_index", "value", "Value",
                          "uranium", "Uranium", "uran", "Uran">>],
     well |-> [well_id |-> <<"brunnsid", "Brunnsid", "BRUNNSID", "well_id", "wellId">>,
               total_depth_m |-> <<"totaldjup", "Totaldjup", "TOTALDJUP", "total_depth">>,
               soil_depth_m |-> <<"jorddjup", "Jorddjup", "JORDDJUP", "soil_depth">>,
               capacity_ls |-> <<"kapacitet", "Kapacitet", "KAPACITET", "capacity">>,
               groundwater_level_m |->
                   <<"grundvattenniva", "Grundvattenniva", "GRUNDVATTENNIVA", "gw_level">>,
               usage |-> <<"anvandning", "Anvandning", "ANVANDNING", "usage">>]]

\* response.features?.[0]
HasFeature(response) == IsDef(response.features) /\ Len(Val(response.features)) > 0

FirstProps(response) == Val(response.features)[1].properties

\* A soil-type shaping in which the legacy names come first.
transformSoilTypeInfo_LegacyFirst(response) ==
    IF ~HasFeature(response) THEN None
    ELSE LET props == FirstProps(response)
             soilType == EitherChain(props, Reverse(CandidateKeys.soil_type.surface_layer))
         IN  Some([surface_layer |-> soilType, underlying_layer |-> Prop(props, "underlag"),
                   thin_surface_layer |-> Prop(props, "tunt_ytlager"),
                   landform |-> Prop(props, "landform"),
                   boulder_coverage |-> Prop(props, "blockighet"),
                   raw_soil_type |-> soilType])

\* The shaping functions give None for null and Some(record) otherwise; a
\* field of the record is None when it is undefined.
transformSoilTypeInfo(response) ==
    IF ~HasFeature(response) THEN None
    ELSE LET props == FirstProps(response)
             soilType == EitherChain(props, CandidateKeys.soil_type.surface_layer)
         IN  Some([surface_layer |-> soilType, underlying_layer |-> Prop(props, "underlag"),
                   thin_surface_layer |-> Prop(props, "tunt_ytlager"),
                   landform |-> Prop(props, "landform"),
                   boulder_coverage |-> Prop(props, "blockighet"),
                   raw_soil_type |-> soilType])

transformBedrockInfo(response) ==
    IF ~HasFeature(response) THEN None
    ELSE LET props == FirstProps(response)
         IN  Some([rock_type |-> EitherChain(props, CandidateKeys.bedrock.rock_type),
                   geological_unit |-> EitherChain(props, CandidateKeys.bedrock.geological_unit),
                   lithology |-> Prop(props, "lito_n_tx"),
                   tectonic_unit |-> Prop(props, "tekt_n_tx"),
                   rock_properties |-> Prop(props, "b_prop_tx"),
                   age |-> Prop(props, "alder_tx")])

transformSoilDepthInfo(response) ==
    IF ~HasFeature(response) THEN None
    ELSE LET props == FirstProps(response)
         IN  Some([depth_class |-> EitherChain(props, CandidateKeys.soil_depth.depth_class),
                   depth_description |-> Prop(props, "jorddjup_tx")])

transformBoulderCoverageInfo(response) ==
    IF ~HasFeature(response) THEN None
    ELSE LET props == FirstProps(response)
         IN  Some([coverage_class |->
                       EitherChain(props, CandidateKeys.boulder_coverage.coverage_class),
                   description |-> Prop(props, "blockighet_tx")])

transformGroundwaterInfo(response) ==
    IF ~HasFeature(response) THEN None
    ELSE LET props == FirstProps(response)
         IN  Some([aquifer_type |-> EitherChain(props, CandidateKeys.groundwater.aquifer_type),
                   soil_layer |-> Prop(props, "jordlager"),
                   capacity |-> Prop(props, "kapacitet")])

transformLandslideInfo(response) ==
    IF ~HasFeature(response) THEN None
    ELSE LET props == FirstProps(response)
         IN  Some([landslide_type |->
                       EitherChain(props, CandidateKeys.landslide.landslide_type),
                   date |-> Prop(props, "datum"),
                   description |-> Prop(props, "skredtyp_tx")])

\* classMap[rawClass] || rawClass
VulnerabilityClass(rawClass) ==
    IF rawClass.text = "1" THEN Str("low")
    ELSE IF rawClass.text = "2" THEN Str("moderate")
    ELSE IF rawClass.text = "3" THEN Str("high")
    ELSE rawClass

transformGroundwaterVulnerabilityInfo(response) ==
    IF ~HasFeature(response) THEN None
    ELSE LET props == FirstProps(response)
             rawClass == EitherChain(props,
                             CandidateKeys.groundwater_vulnerability.vulnerability_class)
         IN  Some([vulnerability_class |->
                       IF IsTruthy(rawClass) THEN Some(VulnerabilityClass(Val(rawClass)))
                       ELSE None,
                   description |-> Prop(props, "sarbarhet_tx")])

\* The second loop of transformRadonRiskInfo takes the first numeric entry of
\* the properties, in the order of Object.entries. With one numeric property
\* there is one such entry.
transformRadonRiskInfo(response) ==
    IF ~HasFeature(response) THEN None
    ELSE LET props == FirstProps(response)
             known == getTyped(props, CandidateKeys.radon_risk.radiation_value, "number")
             numeric == {k \in DOMAIN props : props[k].kind = "number"}
             value == IF IsDef(known) THEN known
                      ELSE IF numeric = {} THEN None
                      ELSE Some(props[CHOOSE k \in numeric : TRUE])
         IN  Some([radiation_value |-> value,
                   risk_level |-> IF ~IsDef(value) THEN None
                                  ELSE IF Val(value).num < 3 THEN Some(Str("low"))
                                  ELSE IF Val(value).num < 5 THEN Some(Str("moderate"))
                                  ELSE Some(Str("high"))])

transformWellPointInfo(response) ==
    IF ~HasFeature(response) THEN None
    ELSE LET props == FirstProps(response)
             keys == CandidateKeys.well
         IN  Some([well_id |-> getTyped(props, keys.well_id, "number"),
                   total_depth_m |-> getTyped(props, keys.total_depth_m, "number"),
                   soil_depth_m |-> getTyped(props, keys.soil_depth_m, "number"),
                   capacity_ls |-> getTyped(props, keys.capacity_ls, "number"),
                   groundwater_level_m |->
                       getTyped(props, keys.groundwater_level_m, "number"),
                   usage |-> getTyped(props, keys.usage, "string")])

\* The shaping function of each data type (the transform given to
\* createPointQueryMethod, and transformSoilTypeInfo in getSoilTypeAt).
PointTransform(dataType, response) ==
    CASE dataType = "soil_type" -> transformSoilTypeInfo(response)
      [] dataType = "bedrock" -> transformBedrockInfo(response)
      [] dataType = "soil_depth" -> transformSoilDepthInfo(response)
      [] dataType = "boulder_coverage" -> transformBoulderCoverageInfo(response)
      [] dataType = "groundwater" -> transformGroundwaterInfo(response)
      [] dataType = "landslide" -> transformLandslideInfo(response)
      [] dataType = "groundwater_vulnerability" ->
            transformGroundwaterVulnerabilityInfo(response)
      [] dataType = "radon_risk" -> transformRadonRiskInfo(response)
      [] dataType = "well" -> transformWellPointInfo(response)

(***************************************************************************)
(* lib/ogc-client.ts                                                       *)
(***************************************************************************)
SGU_OGC_BEDROCK_URL == "https://api.sgu.se/oppnadata/berggrund50k-250k/ogc/features/v1"

DEFAULT_LIMIT == 100

\* The empty string given as a WKT.
EmptyWkt == [type |-> "", ring |-> <<>>]

\* `if (polygonWkt)`: neither undefined nor the empty string.
IsTruthyWkt(polygonWkt) == IsDef(polygonWkt) /\ Val(polygonWkt) # EmptyWkt

\* A getItems that sends the bbox next to the filter.
getItemsParams_BboxWithFilter(options) ==
    LET crs == IF "crs" \in DOMAIN options THEN OrElse(options.crs, CRS_SWEREF99TM)
               ELSE CRS_SWEREF99TM
        common == ("limit" :> Some(options.limit)) @@ ("offset" :> None) @@
                  ("crs" :> Some(crs)) @@ ("bbox-crs" :> Some(crs))
        box == IF IsDef(options.bbox)
               THEN common @@ ("bbox" :> Some(bboxToString(Val(options.bbox))))
               ELSE common
    IN  IF IsTruthyWkt(options.polygonWkt)
        THEN box @@
             ("filter" :> Some([fn |-> "INTERSECTS", geom |-> "geom",
                                wkt |-> Val(options.polygonWkt)])) @@
             ("filter-lang" :> Some("cql-text")) @@
             ("filter-crs" :> Some(crs))
        ELSE box

\* The params object of getItems. options.bbox, options.polygonWkt and
\* options.crs are optional; crs defaults to CRS_SWEREF99TM.
getItemsParams(options) ==
    LET crs == IF "crs" \in DOMAIN options THEN OrElse(options.crs, CRS_SWEREF99TM)
               ELSE CRS_SWEREF99TM
        common == ("limit" :> Some(options.limit)) @@ ("offset" :> None) @@
                  ("crs" :> Some(crs)) @@ ("bbox-crs" :> Some(crs))
    IN  IF IsTruthyWkt(options.polygonWkt)
        THEN common @@
             ("filter" :> Some([fn |-> "INTERSECTS", geom |-> "geom",
                                wkt |-> Val(options.polygonWkt)])) @@
             ("filter-lang" :> Some("cql-text")) @@
             ("filter-crs" :> Some(crs))
        ELSE IF IsDef(options.bbox)
        THEN common @@ ("bbox" :> Some(bboxToString(Val(options.bbox))))
        ELSE common

getItemsPath(collection) == "collections/" \o collection \o "/items"

\* A getItems that wraps every error, an UpstreamApiError included.
getItemsSettled_AlwaysWrap(outcome, baseUrl) ==
    IF outcome.ok THEN Ok(outcome.value.features)
    ELSE Thrown(UpstreamApiError("Failed to fetch bedrock features for this area", 0, baseUrl))

\* What getItems gives its caller once its request has settled.
getItemsSettled(outcome, baseUrl) ==
    IF outcome.ok THEN Ok(outcome.value.features)
    ELSE IF outcome.error.name = "UpstreamApiError" THEN Thrown(outcome.error)
    ELSE Thrown(UpstreamApiError("Failed to fetch bedrock features for this area", 0, baseUrl))

(***************************************************************************)
(* lib/wms-client.ts                                                       *)
(***************************************************************************)
\* const wmsVersion = config.version ?? '1.3.0'
wmsVersion(config) == OrElse(config.version, "1.3.0")

\* config.baseUrl.endsWith('?') ? config.baseUrl.slice(0, -1) : config.baseUrl
\* (no configured base URL ends with '?')
UrlBase(config) == config.baseUrl

\* A GetMap URL that writes the 1.1.1 BBOX in the axis order of 1.3.0.
getMapUrl_SameAxisOrder(config, options) ==
    LET bbox == options.bbox
        crs == OrElse(options.crs, CRS_SWEREF99TM)
        common ==
            [SERVICE |-> "WMS", VERSION |-> wmsVersion(config), REQUEST |-> "GetMap",
             LAYERS |-> options.layers,
             WIDTH |-> OrElse(options.width, 800),
             HEIGHT |-> OrElse(options.height, 600),
             FORMAT |-> OrElse(options.format, "image/png"),
             TRANSPARENT |-> IF OrElse(options.transparent, TRUE) THEN "true" ELSE "false"]
    IN  [base |-> UrlBase(config),
         params |->
            IF wmsVersion(config) = "1.1.1"
            THEN common @@ ("SRS" :> crs) @@
                 ("BBOX" :> <<bbox.minY, bbox.minX, bbox.maxY, bbox.maxX>>)
            ELSE common @@ ("CRS" :> crs) @@
                 ("BBOX" :> <<bbox.minY, bbox.minX, bbox.maxY, bbox.maxX>>)]

\* LAYERS and QUERY_LAYERS are layers.join(','): the list of layers, in order.
getMapUrl(config, options) ==
    LET bbox == options.bbox
        crs == OrElse(options.crs, CRS_SWEREF99TM)
        common ==
            [SERVICE |-> "WMS", VERSION |-> wmsVersion(config), REQUEST |-> "GetMap",
             LAYERS |-> options.layers,
             WIDTH |-> OrElse(options.width, 800),
             HEIGHT |-> OrElse(options.height, 600),
             FORMAT |-> OrElse(options.format, "image/png"),
             TRANSPARENT |-> IF OrElse(options.transparent, TRUE) THEN "true" ELSE "false"]
    IN  [base |-> UrlBase(config),
         params |->
            IF wmsVersion(config) = "1.1.1"
            THEN common @@ ("SRS" :> crs) @@
                 ("BBOX" :> <<bbox.minX, bbox.minY, bbox.maxX, bbox.maxY>>)
            ELSE common @@ ("CRS" :> crs) @@
                 ("BBOX" :> <<bbox.minY, bbox.minX, bbox.maxY, bbox.maxX>>)]

getLegendUrl(config, layer, format) ==
    [base |-> UrlBase(config),
     params |-> [SERVICE |-> "WMS", VERSION |-> wmsVersion(config),
                 REQUEST |-> "GetLegendGraphic", LAYER |-> layer,
                 FORMAT |-> OrElse(format, "image/png")]]

\* GetFeatureInfo parameters that name the pixel I, J in both versions.
getFeatureInfoParams_AlwaysIJ(config, options) ==
    LET bbox == options.bbox
        crs == OrElse(options.crs, CRS_SWEREF99TM)
        common ==
            ("SERVICE" :> Some("WMS")) @@ ("VERSION" :> Some(wmsVersion(config))) @@
            ("REQUEST" :> Some("GetFeatureInfo")) @@
            ("LAYERS" :> Some(options.layers)) @@
            ("QUERY_LAYERS" :> Some(options.layers)) @@
            ("WIDTH" :> Some(options.width)) @@ ("HEIGHT" :> Some(options.height)) @@
            ("INFO_FORMAT" :> Some(OrElse(options.infoFormat, "application/json")))
    IN  IF wmsVersion(config) = "1.1.1"
        THEN common @@ ("SRS" :> Some(crs)) @@
             ("BBOX" :> Some(<<bbox.minX, bbox.minY, bbox.maxX, bbox.maxY>>)) @@
             ("I" :> Some(options.x)) @@ ("J" :> Some(options.y))
        ELSE common @@ ("CRS" :> Some(crs)) @@
             ("BBOX" :> Some(<<bbox.minY, bbox.minX, bbox.maxY, bbox.maxX>>)) @@
             ("I" :> Some(options.x)) @@ ("J" :> Some(options.y))

\* The params object that getFeatureInfo hands to client.request('', { params }).
getFeatureInfoParams(config, options) ==
    LET bbox == options.bbox
        crs == OrElse(options.crs, CRS_SWEREF99TM)
        common ==
            ("SERVICE" :> Some("WMS")) @@ ("VERSION" :> Some(wmsVersion(config))) @@
            ("REQUEST" :> Some("GetFeatureInfo")) @@
            ("LAYERS" :> Some(options.layers)) @@
            ("QUERY_LAYERS" :> Some(options.layers)) @@
            ("WIDTH" :> Some(options.width)) @@ ("HEIGHT" :> Some(options.height)) @@
            ("INFO_FORMAT" :> Some(OrElse(options.infoFormat, "application/json")))
    IN  IF wmsVersion(config) = "1.1.1"
        THEN common @@ ("SRS" :> Some(crs)) @@
             ("BBOX" :> Some(<<bbox.minX, bbox.minY, bbox.maxX, bbox.maxY>>)) @@
             ("X" :> Some(options.x)) @@ ("Y" :> Some(options.y))
        ELSE common @@ ("CRS" :> Some(crs)) @@
             ("BBOX" :> Some(<<bbox.minY, bbox.minX, bbox.maxY, bbox.maxX>>)) @@
             ("I" :> Some(options.x)) @@ ("J" :> Some(options.y))

\* The params object that getCapabilities hands to client.request('', { params }).
getCapabilitiesParams(config) ==
    ("SERVICE" :> Some("WMS")) @@ ("VERSION" :> Some("1.3.0")) @@
    ("REQUEST" :> Some("GetCapabilities"))

\* What getFeatureInfo gives its caller once its request has settled.
getFeatureInfoSettled(outcome, baseUrl) ==
    IF outcome.ok THEN Ok(outcome.value)
    ELSE IF outcome.error.name = "UpstreamApiError" THEN Thrown(outcome.error)
    ELSE Thrown(UpstreamApiError("Failed to query geological data at this location", 0, baseUrl))

(***************************************************************************)
(* clients/sgu-client.ts                                                   *)
(***************************************************************************)
SGU_WMS_BEDROCK_URL == "https://maps3.sgu.se/geoserver/berg/ows"

SGU_WMS_SOIL_TYPES_URL == "https://maps3.sgu.se/geoserver/jord/ows"

SGU_WMS_GROUNDWATER_URL == "https://maps3.sgu.se/geoserver/ows"

SGU_WMS_GAMMA_URL == "https://resource.sgu.se/service/wms/130/flyggeofysik-gammastralning-uran"

SGU_WMS_WELLS_URL == "https://resource.sgu.se/service/wms/130/brunnar"

SGU_WMS_BALLAST_URL == "https://resource.sgu.se/service/wms/130/ballast"

\* Every WMS client of the facade is created without a version.
FacadeWmsClient(baseUrl) == [baseUrl |-> baseUrl, version |-> None]

BEDROCK_LAYERS == <<"SE.GOV.SGU.BERG.GEOLOGISK_ENHET.YTA.50K">>

SOIL_TYPES_LAYERS == <<"SE.GOV.SGU.JORD.GRUNDLAGER.25K">>

BOULDER_COVERAGE_LAYERS == <<"SE.GOV.SGU.JORD.BLOCKIGHET.25K">>

SOIL_DEPTH_LAYERS == <<"SE.GOV.SGU.JORD.JORDDJUP.50K">>

GROUNDWATER_LAYERS == <<"SE.GOV.SGU.HMAG.GRUNDVATTENMAGASIN_J1.V2">>

LANDSLIDE_LAYERS == <<"SE.GOV.SGU.JORD.SKRED">>

RADON_RISK_LAYERS == <<"Uran">>

WELLS_LAYERS == <<"Brunnar">>

GROUNDWATER_VULNERABILITY_LAYERS == <<"SE.GOV.SGU.GRUNDVATTEN.SARBARHET_3KL">>

GRAVEL_DEPOSITS_LAYERS == <<"SE.GOV.SGU.BALLAST.GRUSFOREKOMSTER">>

ROCK_DEPOSITS_LAYERS == <<"SE.GOV.SGU.BALLAST.BERGFOREKOMSTER">>

LegendUrl(baseUrl, version, layers) ==
    [base |-> baseUrl,
     params |-> [SERVICE |-> "WMS", VERSION |-> version, REQUEST |-> "GetLegendGraphic",
                 LAYER |-> layers[1], FORMAT |-> "image/png"]]

LEGEND_URLS ==
    [bedrock |-> LegendUrl(SGU_WMS_BEDROCK_URL, "1.3.0", BEDROCK_LAYERS),
     soilTypes |-> LegendUrl(SGU_WMS_SOIL_TYPES_URL, "1.3.0", SOIL_TYPES_LAYERS),
     boulderCoverage |-> LegendUrl(SGU_WMS_SOIL_TYPES_URL, "1.3.0", BOULDER_COVERAGE_LAYERS),
     soilDepth |-> LegendUrl(SGU_WMS_SOIL_TYPES_URL, "1.3.0", SOIL_DEPTH_LAYERS),
     groundwater |-> LegendUrl(SGU_WMS_GROUNDWATER_URL, "1.3.0", GROUNDWATER_LAYERS),
     landslide |-> LegendUrl(SGU_WMS_SOIL_TYPES_URL, "1.3.0", LANDSLIDE_LAYERS),
     radonRisk |-> LegendUrl(SGU_WMS_GAMMA_URL, "1.1.1", RADON_RISK_LAYERS),
     wells |-> LegendUrl(SGU_WMS_WELLS_URL, "1.1.1", WELLS_LAYERS),
     groundwaterVulnerability |->
        LegendUrl(SGU_WMS_GROUNDWATER_URL, "1.3.0", GROUNDWATER_VULNERABILITY_LAYERS),
     gravelDeposits |-> LegendUrl(SGU_WMS_BALLAST_URL, "1.1.1", GRAVEL_DEPOSITS_LAYERS),
     rockDeposits |-> LegendUrl(SGU_WMS_BALLAST_URL, "1.1.1", ROCK_DEPOSITS_LAYERS)]

\* The map methods of sguClient: the client, layers and legend key each one is
\* created with by createMapUrlMethod.
MapMethods ==
    [bedrock |-> [baseUrl |-> SGU_WMS_BEDROCK_URL, layers |-> BEDROCK_LAYERS],
     soilTypes |-> [baseUrl |-> SGU_WMS_SOIL_TYPES_URL, layers |-> SOIL_TYPES_LAYERS],
     boulderCoverage |-> [baseUrl |-> SGU_WMS_SOIL_TYPES_URL, layers |-> BOULDER_COVERAGE_LAYERS],
     soilDepth |-> [baseUrl |-> SGU_WMS_SOIL_TYPES_URL, layers |-> SOIL_DEPTH_LAYERS],
     groundwater |-> [baseUrl |-> SGU_WMS_GROUNDWATER_URL, layers |-> GROUNDWATER_LAYERS],
     landslide |-> [baseUrl |-> SGU_WMS_SOIL_TYPES_URL, layers |-> LANDSLIDE_LAYERS],
     radonRisk |-> [baseUrl |-> SGU_WMS_GAMMA_URL, layers |-> RADON_RISK_LAYERS],
     wells |-> [baseUrl |-> SGU_WMS_WELLS_URL, layers |-> WELLS_LAYERS],
     groundwaterVulnerability |->
        [baseUrl |-> SGU_WMS_GROUNDWATER_URL, layers |-> GROUNDWATER_VULNERABILITY_LAYERS],
     gravelDeposits |-> [baseUrl |-> SGU_WMS_BALLAST_URL, layers |-> GRAVEL_DEPOSITS_LAYERS],
     rockDeposits |-> [baseUrl |-> SGU_WMS_BALLAST_URL, layers |-> ROCK_DEPOSITS_LAYERS]]

\* The point-query methods of sguClient (QUERY_CONFIG of the query-point tool
\* names them by data type).
PointMethods ==
    [bedrock |-> [baseUrl |-> SGU_WMS_BEDROCK_URL, layers |-> BEDROCK_LAYERS],
     soil_type |-> [baseUrl |-> SGU_WMS_SOIL_TYPES_URL, layers |-> SOIL_TYPES_LAYERS],
     boulder_coverage |-> [baseUrl |-> SGU_WMS_SOIL_TYPES_URL, layers |-> BOULDER_COVERAGE_LAYERS],
     soil_depth |-> [baseUrl |-> SGU_WMS_SOIL_TYPES_URL, layers |-> SOIL_DEPTH_LAYERS],
     groundwater |-> [baseUrl |-> SGU_WMS_GROUNDWATER_URL, layers |-> GROUNDWATER_LAYERS],
     groundwater_vulnerability |->
        [baseUrl |-> SGU_WMS_GROUNDWATER_URL, layers |-> GROUNDWATER_VULNERABILITY_LAYERS],
     landslide |-> [baseUrl |-> SGU_WMS_SOIL_TYPES_URL, layers |-> LANDSLIDE_LAYERS],
     radon_risk |-> [baseUrl |-> SGU_WMS_GAMMA_URL, layers |-> RADON_RISK_LAYERS],
     well |-> [baseUrl |-> SGU_WMS_WELLS_URL, layers |-> WELLS_LAYERS]]

buildMapResponse(mapUrl, legendUrl, bbox, layers) ==
    [map_url |-> mapUrl, legend_url |-> legendUrl,
     bbox |-> [minX |-> bbox.minX, minY |-> bbox.minY, maxX |-> bbox.maxX, maxY |-> bbox.maxY],
     coordinate_system |-> "EPSG:3006", layers |-> layers]

\* The function returned by createMapUrlMethod(wmsClient, layers, legendKey).
createMapUrlMethod(legendKey, bbox, options) ==
    LET method == MapMethods[legendKey]
        format == OrElse(options.format, "png")
        mapUrl == getMapUrl(FacadeWmsClient(method.baseUrl),
                            [layers |-> method.layers, bbox |-> bbox,
                             width |-> Some(OrElse(options.width, 800)),
                             height |-> Some(OrElse(options.height, 600)),
                             format |-> Some(IF format = "jpeg" THEN "image/jpeg" ELSE "image/png"),
                             crs |-> None, transparent |-> None])
    IN  buildMapResponse(mapUrl, LEGEND_URLS[legendKey], bbox, method.layers)

\* A point query that asks for the last pixel of the image.
PointQueryOptions_LastPixel(layers, point) ==
    LET buffer == 100
        width == 256
        height == 256
    IN  [layers |-> layers,
         bbox |-> [minX |-> point.x - buffer, minY |-> point.y - buffer,
                   maxX |-> point.x + buffer, maxY |-> point.y + buffer],
         width |-> width, height |-> height,
         x |-> width - 1, y |-> height - 1,
         infoFormat |-> None, crs |-> None]

\* The GetFeatureInfo options of createPointQueryMethod and getSoilTypeAt:
\* a 100 m buffer around the point, a 256 x 256 image, its centre pixel.
PointQueryOptions(layers, point) ==
    LET buffer == 100
        width == 256
        height == 256
    IN  [layers |-> layers,
         bbox |-> [minX |-> point.x - buffer, minY |-> point.y - buffer,
                   maxX |-> point.x + buffer, maxY |-> point.y + buffer],
         width |-> width, height |-> height,
         x |-> width \div 2, y |-> height \div 2,
         infoFormat |-> None, crs |-> None]

\* getBedrock, up to its first await: the polygon filter it could build and
\* the options of the first getItems call.
getBedrockPolygon(corridor) ==
    IF IsDef(corridor) THEN corridorToWktPolygon(Val(corridor))
    ELSE Thrown(PlainError("no corridor"))

\* A first query that drops the bbox whenever a corridor is given.
getBedrockFirstOptions_NoBboxFallback(bbox, limit, corridor) ==
    LET polygon == getBedrockPolygon(corridor)
        usedPolygonFilter == IsDef(corridor) /\ polygon.ok
    IN  [bbox |-> IF IsDef(corridor) THEN None ELSE Some(bbox),
         polygonWkt |-> IF usedPolygonFilter THEN Some(polygon.value) ELSE None,
         limit |-> limit]

getBedrockFirstOptions(bbox, limit, corridor) ==
    LET polygon == getBedrockPolygon(corridor)
        usedPolygonFilter == IsDef(corridor) /\ polygon.ok
    IN  [bbox |-> IF usedPolygonFilter THEN None ELSE Some(bbox),
         polygonWkt |-> IF usedPolygonFilter THEN Some(polygon.value) ELSE None,
         limit |-> limit]

\* The options of the getItems call in the catch block.
getBedrockRetryOptions(bbox, limit) ==
    [bbox |-> Some(bbox), polygonWkt |-> None, limit |-> limit]

\* The try block of getBedrock after getItems settled: the awaited features
\* and their shaping are both inside it.
getBedrockTry(outcome, usedPolygonFilter) ==
    LET items == getItemsSettled(outcome, SGU_OGC_BEDROCK_URL)
        shaped == IF items.ok THEN FeaturesMap(items.value) ELSE items
    IN  IF shaped.ok
        THEN Ok([features |-> shaped.value, usedPolygonFilter |-> usedPolygonFilter])
        ELSE shaped

\* A catch block that retries whatever the first query was.
getBedrockCatch_AlwaysRetry(usedPolygonFilter) == "retry"

\* The catch block of getBedrock: "retry" stands for the second getItems call.
getBedrockCatch(usedPolygonFilter) ==
    IF usedPolygonFilter THEN "retry" ELSE "throw"

\* The catch block after the second getItems settled: nothing catches there.
getBedrockRetried(outcome) ==
    LET items == getItemsSettled(outcome, SGU_OGC_BEDROCK_URL)
        shaped == IF items.ok THEN FeaturesMap(items.value) ELSE items
    IN  IF shaped.ok
        THEN Ok([features |-> shaped.value, usedPolygonFilter |-> FALSE])
        ELSE shaped

(***************************************************************************)
(* lib/map-tool-handler.ts, tools/get-bedrock.ts, tools/query-point.ts     *)
(***************************************************************************)
hasBboxParams(args) ==
    IsDef(args.minLat) /\ IsDef(args.minLon) /\ IsDef(args.maxLat) /\ IsDef(args.maxLon)

hasCorridorParams(args) ==
    IsDef(args.coordinates) /\ Len(Val(args.coordinates)) >= 2

NoGeometryError ==
    ValidationError("Either bbox (minLat, minLon, maxLat, maxLon) or corridor must be provided", "")

ArgsBbox(args) ==
    [minLat |-> Val(args.minLat), minLon |-> Val(args.minLon),
     maxLat |-> Val(args.maxLat), maxLon |-> Val(args.maxLon)]

\* bufferMeters: args.bufferMeters ?? 500
ArgsCorridor(args, sweref99Coords) ==
    [coordinates |-> sweref99Coords, bufferMeters |-> OrElse(args.bufferMeters, 500)]

processMapToolInput(args) ==
    IF ~hasBboxParams(args) /\ ~hasCorridorParams(args) THEN Thrown(NoGeometryError)
    ELSE LET sweref99Coords == wgs84CoordinatesToSweref99(Val(args.coordinates))
             bbox == IF hasCorridorParams(args)
                     THEN IF sweref99Coords.ok
                          THEN corridorToBoundingBox(ArgsCorridor(args, sweref99Coords.value))
                          ELSE sweref99Coords
                     ELSE wgs84BboxToSweref99(ArgsBbox(args))
         IN  IF ~bbox.ok THEN bbox
             ELSE IF ~validateBbox(bbox.value).ok THEN validateBbox(bbox.value)
             ELSE bbox

\* The handler returned by createMapToolHandler(sguClient.get...MapUrl).
createMapToolHandler(legendKey, args) ==
    LET bbox == processMapToolInput(args)
    IN  IF ~bbox.ok THEN bbox
        ELSE Ok(createMapUrlMethod(legendKey, bbox.value,
                    [width |-> args.width, height |-> args.height, format |-> args.format]))

\* getBedrockHandler up to its call of sguClient.getBedrock: the bbox, the
\* corridor (if any) and the limit it passes. The handler is the function
\* given to withErrorHandling: what it throws is what the wrapper reports.
getBedrockHandlerInput(args) ==
    IF ~hasBboxParams(args) /\ ~hasCorridorParams(args) THEN Thrown(NoGeometryError)
    ELSE LET sweref99Coords == wgs84CoordinatesToSweref99(Val(args.coordinates))
         IN  IF hasCorridorParams(args) /\ ~sweref99Coords.ok THEN sweref99Coords
             ELSE LET corridor == IF hasCorridorParams(args)
                                  THEN Some(ArgsCorridor(args, sweref99Coords.value))
                                  ELSE None
                      bbox == IF IsDef(corridor) THEN corridorToBoundingBox(Val(corridor))
                              ELSE wgs84BboxToSweref99(ArgsBbox(args))
                  IN  IF ~bbox.ok THEN bbox
                      ELSE IF ~validateBbox(bbox.value).ok THEN validateBbox(bbox.value)
                      ELSE Ok([bbox |-> bbox.value, corridor |-> corridor,
                               limit |-> OrElse(args.limit, DEFAULT_LIMIT),
                               queryType |-> IF IsDef(corridor) THEN "corridor" ELSE "bbox"])

\* The record getBedrockHandler returns for the facade's result.
getBedrockHandlerOutput(queryType, bbox, result) ==
    [query_type |-> queryType, input_coordinate_system |-> CRS_WGS84,
     internal_coordinate_system |-> CRS_SWEREF99TM, bbox_used |-> bbox,
     used_polygon_filter |-> result.usedPolygonFilter,
     count |-> Len(result.features), features |-> result.features]

DATA_TYPES ==
    {"bedrock", "soil_type", "boulder_coverage", "soil_depth", "groundwater",
     "groundwater_vulnerability", "landslide", "radon_risk", "well"}

\* The record queryPointHandler returns for the facade's data.
queryPointHandlerOutput(args, data) ==
    [coordinate_system |-> CRS_WGS84,
     coordinates |-> [latitude |-> args.latitude, longitude |-> args.longitude],
     data_type |-> args.dataType, found |-> ~data.isNull, data |-> data]

(***************************************************************************)
(* Inputs and upstream answers the model draws from.                       *)
(***************************************************************************)
MaxCoords == 2

SeqsUpTo(S, n) == UNION {[1..k -> S] : k \in 0..n}

CorridorWgs84Points ==
    {[latitude |-> 59, longitude |-> 18], [latitude |-> 60, longitude |-> 15],
     [latitude |-> 54, longitude |-> 18]}

GeometryArgs ==
    [minLat : {None, Some(54), Some(59), Some(60)},
     minLon : {None, Some(15), Some(18)},
     maxLat : {Some(59), Some(60)},
     maxLon : {Some(18), Some(24)},
     coordinates : {None} \cup {Some(c) : c \in SeqsUpTo(CorridorWgs84Points, MaxCoords)},
     bufferMeters : {None, Some(0), Some(500)}]

BedrockArgs == {g @@ [limit |-> None] : g \in GeometryArgs}

ImageOptions ==
    {[width |-> None, height |-> None, format |-> None],
     [width |-> Some(1024), height |-> None, format |-> Some("jpeg")],
     [width |-> None, height |-> Some(768), format |-> Some("png")]}

MapToolArgs == {g @@ im : g \in GeometryArgs, im \in ImageOptions}

QueryPointArgs ==
    [latitude : {54, 59, 69}, longitude : {18, 24, 25}, dataType : DATA_TYPES]

SwerefPoints == {[x |-> 670000, y |-> 6570000], [x |-> 680000, y |-> 6580000]}

SwerefBoxes ==
    {[minX |-> 670000, minY |-> 6570000, maxX |-> 680000, maxY |-> 6590000],
     [minX |-> 500000, minY |-> 6540052, maxX |-> 667295, maxY |-> 6655205]}

FacadeCorridors ==
    {None} \cup {Some([coordinates |-> c, bufferMeters |-> 100]) :
                    c \in SeqsUpTo(SwerefPoints, MaxCoords)}

WmsConfigs ==
    [baseUrl : {SGU_WMS_BEDROCK_URL}, version : {None, Some("1.1.1"), Some("1.3.0")}]

LayerLists == {<<"A">>, <<"A", "B">>}

GetMapOptions ==
    [layers : LayerLists, bbox : SwerefBoxes, width : {None, Some(1024)},
     height : {None}, format : {None, Some("image/jpeg")}, crs : {None},
     transparent : {None, Some(FALSE)}]

GetFeatureInfoOptions ==
    [layers : LayerLists, bbox : SwerefBoxes, width : {256}, height : {256},
     x : {0, 128}, y : {128}, infoFormat : {None}, crs : {None}]

\* The polygon WKT given to getItems: none, the empty string, or a polygon.
PolygonWkts ==
    {None, Some(EmptyWkt),
     Some(corridorToWktPolygon([coordinates |-> <<[x |-> 670000, y |-> 6570000],
                                                  [x |-> 680000, y |-> 6580000]>>,
                                bufferMeters |-> 100]).value)}

GetItemsOptions ==
    [bbox : {None} \cup {Some(b) : b \in SwerefBoxes}, polygonWkt : PolygonWkts,
     limit : {10, DEFAULT_LIMIT}, crs : {None, Some(CRS_WGS84)}]

\* Boxes on both sides of every edge of SWEREF99TM_BOUNDS, ordered or not.
BboxInputs ==
    [minX : {199999, 200000, 670000}, maxX : {200000, 670000, 1000000, 1000001},
     minY : {6099999, 6100000, 6570000}, maxY : {6100000, 6570000, 7700000, 7700001}]

\* Points on both sides of every edge of WGS84_BOUNDS.
Wgs84Inputs == [latitude : LatGrid, longitude : LonGrid]

BufferInputs == {-100, 0, 100, 500}

CorridorInputs ==
    [coordinates : SeqsUpTo(SwerefPoints \cup {[x |-> 670000, y |-> 6590000]}, MaxCoords + 1),
     bufferMeters : BufferInputs]

Wgs84CoordinateInputs ==
    SeqsUpTo({[latitude |-> 59, longitude |-> 18], [latitude |-> 69, longitude |-> 24],
              [latitude |-> 70, longitude |-> 18], [latitude |-> 59, longitude |-> 10]},
             MaxCoords + 1)

\* The GetFeatureInfo responses given to the shaping function of a data type:
\* no features, or a first feature whose properties are any combination of
\* the candidate names of a field, with values that are empty, zero or of
\* another type among them.
InfoResponses(dataType) ==
    LET PropsOver(keys, values) == UNION {[present -> values] : present \in SUBSET keys}
        TextValues == {Str(""), Str("Moran"), Str("Lera")}
        InfoProperties ==
            [soil_type |->
                PropsOver({"Jordart", "grundlager", "jordart_tx", "jordart"}, TextValues),
             bedrock |-> PropsOver({"bergart_tx", "rock_type"}, TextValues),
             soil_depth |-> PropsOver({"jorddjup", "Jorddjup"}, TextValues),
             boulder_coverage |-> PropsOver({"blockighet", "Blockighet"}, TextValues),
             groundwater |-> PropsOver({"magasin_tx", "Magasin"}, TextValues),
             landslide |-> PropsOver({"skredtyp", "Skredtyp", "skredtyp_tx"}, TextValues),
             groundwater_vulnerability |->
                PropsOver({"sarbarhet", "Sarbarhet"}, {Str(""), Str("2"), Str("okand")}),
             radon_risk |-> PropsOver({"GRAY_INDEX", "gray_index", "value", "OBJECTID"},
                                      {Num(2), Num(6), Str("4")}),
             well |-> PropsOver({"totaldjup", "Totaldjup", "TOTALDJUP", "total_depth"},
                                {Num(0), Num(85), Str("85")})
                      \cup PropsOver({"anvandning", "Anvandning", "ANVANDNING", "usage"},
                                     {Str(""), Str("Hushall"), Num(1)})]
    IN  {[features |-> None], [features |-> Some(<<>>)]}
        \cup {[features |-> Some(<<[properties |-> props]>>)] :
                props \in InfoProperties[dataType]}

Statuses == {200, 404, 503}

ContentTypes == {"application/json", "text/xml"}

Features == {[id |-> 1, geometry |-> "Polygon"], [id |-> 2, geometry |-> "null"]}

\* The body of a 2xx answer: JSON that does not parse, or a JSON object with or
\* without a features array.
Payloads ==
    {[valid |-> FALSE, features |-> None], [valid |-> TRUE, features |-> None],
     [valid |-> TRUE, features |-> Some(<<>>)]}
    \cup {[valid |-> TRUE, features |-> Some(<<f>>)] : f \in Features}

(***************************************************************************)
(* State.                                                                  *)
(***************************************************************************)
Pending == [kind |-> "pending", value |-> None, error |-> PlainError("")]

Returned(v) == [kind |-> "returned", value |-> v, error |-> PlainError("")]

Raised(e) == [kind |-> "raised", value |-> None, error |-> e]

IdleCall ==
    [op |-> "none", args |-> None, pc |-> "idle", usedPolygonFilter |-> FALSE,
     input |-> None, attempt |-> 0, result |-> Pending]

\* A call that ended without awaiting anything.
SyncCall(op, args, outcome) ==
    [op |-> op, args |-> Some(args), pc |-> "done", usedPolygonFilter |-> FALSE,
     input |-> None, attempt |-> 0,
     result |-> IF outcome.ok THEN Returned(outcome.value) ELSE Raised(outcome.error)]

\* A call suspended at an await of a request.
AwaitingCall(op, args, input, usedPolygonFilter) ==
    [op |-> op, args |-> Some(args), pc |-> "awaiting",
     usedPolygonFilter |-> usedPolygonFilter, input |-> Some(input), attempt |-> 1,
     result |-> Pending]

RequestsOf(i) == {r \in DOMAIN reqs : reqs[r].owner = i}

Init ==
    /\ calls = [i \in {1} |-> IdleCall]
    /\ reqs = <<>>

(***************************************************************************)
(* Calls: each action runs the handler up to its first await.              *)
(***************************************************************************)
BEDROCK_COLLECTION == "geologisk-enhet-yta"

\* sguClient.getBedrock(bbox, limit, corridor) up to `await getItems(...)`.
StartGetBedrock(i, op, args, input) ==
    LET options == getBedrockFirstOptions(input.bbox, input.limit, input.corridor)
    IN  /\ calls' = [calls EXCEPT ![i] =
                        AwaitingCall(op, args, input, IsDef(options.polygonWkt))]
        /\ reqs' = Append(reqs, NewRequest(i, SGU_OGC_BEDROCK_URL,
                                           getItemsPath(BEDROCK_COLLECTION),
                                           getItemsParams(options)))

CallGetBedrockHandler(i, args) ==
    /\ calls[i].pc = "idle"
    /\ LET input == getBedrockHandlerInput(args)
       IN  IF input.ok
           THEN StartGetBedrock(i, "getBedrockHandler", args, input.value)
           ELSE /\ calls' = [calls EXCEPT ![i] = SyncCall("getBedrockHandler", args, input)]
                /\ UNCHANGED reqs

CallGetBedrock(i, bbox, corridor) ==
    /\ calls[i].pc = "idle"
    /\ StartGetBedrock(i, "getBedrock", [bbox |-> bbox, corridor |-> corridor],
                       [bbox |-> bbox, corridor |-> corridor, limit |-> DEFAULT_LIMIT,
                        queryType |-> "direct"])

CallMapTool(i, legendKey, args) ==
    /\ calls[i].pc = "idle"
    /\ calls' = [calls EXCEPT ![i] =
                    SyncCall("mapTool", args @@ [legendKey |-> legendKey],
                             createMapToolHandler(legendKey, args))]
    /\ UNCHANGED reqs

\* queryPointHandler up to `await config.method(sweref99Point)`, the method
\* being a point-query method up to `await wmsClient.getFeatureInfo(...)`.
CallQueryPoint(i, args) ==
    /\ calls[i].pc = "idle"
    /\ LET sweref99Point == wgs84ToSweref99([latitude |-> args.latitude,
                                             longitude |-> args.longitude])
           method == PointMethods[args.dataType]
       IN  IF ~sweref99Point.ok
           THEN /\ calls' = [calls EXCEPT ![i] = SyncCall("queryPoint", args, sweref99Point)]
                /\ UNCHANGED reqs
           ELSE /\ calls' = [calls EXCEPT ![i] =
                                AwaitingCall("queryPoint", args,
                                             [baseUrl |-> method.baseUrl], FALSE)]
                /\ reqs' = Append(reqs,
                              NewRequest(i, method.baseUrl, "",
                                  getFeatureInfoParams(FacadeWmsClient(method.baseUrl),
                                      PointQueryOptions(method.layers, sweref99Point.value))))

\* A getMapUrl that fetches the image it names.
CallGetMapUrl_Fetching(i, config, options) ==
    /\ calls[i].pc = "idle"
    /\ calls' = [calls EXCEPT ![i] =
                    SyncCall("getMapUrl", [config |-> config, options |-> options],
                             Ok(getMapUrl(config, options)))]
    /\ reqs' = Append(reqs, NewRequest(i, config.baseUrl, "",
                                       [k \in {"REQUEST"} |-> Some("GetMap")]))

CallGetMapUrl(i, config, options) ==
    /\ calls[i].pc = "idle"
    /\ calls' = [calls EXCEPT ![i] =
                    SyncCall("getMapUrl", [config |-> config, options |-> options],
                             Ok(getMapUrl(config, options)))]
    /\ UNCHANGED reqs

CallGetLegendUrl(i, config, layer, format) ==
    /\ calls[i].pc = "idle"
    /\ calls' = [calls EXCEPT ![i] =
                    SyncCall("getLegendUrl",
                             [config |-> config, layer |-> layer, format |-> format],
                             Ok(getLegendUrl(config, layer, format)))]
    /\ UNCHANGED reqs

\* bedrockOgcClient.getItems(collection, options) up to `await client.request`.
CallGetItems(i, options) ==
    /\ calls[i].pc = "idle"
    /\ calls' = [calls EXCEPT ![i] =
                    AwaitingCall("getItems", options,
                                 [baseUrl |-> SGU_OGC_BEDROCK_URL], FALSE)]
    /\ reqs' = Append(reqs, NewRequest(i, SGU_OGC_BEDROCK_URL,
                                       getItemsPath(BEDROCK_COLLECTION),
                                       getItemsParams(options)))

\* The functions of geometry-utils and coordinates, called on their own.
CallValidateBbox(i, bbox) ==
    /\ calls[i].pc = "idle"
    /\ calls' = [calls EXCEPT ![i] = SyncCall("validateBbox", bbox, validateBbox(bbox))]
    /\ UNCHANGED reqs

CallCorridorToBoundingBox(i, corridor) ==
    /\ calls[i].pc = "idle"
    /\ calls' = [calls EXCEPT ![i] =
                    SyncCall("corridorToBoundingBox", corridor,
                             corridorToBoundingBox(corridor))]
    /\ UNCHANGED reqs

CallCorridorToWktPolygon(i, corridor) ==
    /\ calls[i].pc = "idle"
    /\ calls' = [calls EXCEPT ![i] =
                    SyncCall("corridorToWktPolygon", corridor,
                             corridorToWktPolygon(corridor))]
    /\ UNCHANGED reqs

CallWgs84ToSweref99(i, point) ==
    /\ calls[i].pc = "idle"
    /\ calls' = [calls EXCEPT ![i] =
                    SyncCall("wgs84ToSweref99", point, wgs84ToSweref99(point))]
    /\ UNCHANGED reqs

CallWgs84CoordinatesToSweref99(i, coords) ==
    /\ calls[i].pc = "idle"
    /\ calls' = [calls EXCEPT ![i] =
                    SyncCall("wgs84CoordinatesToSweref99", coords,
                             wgs84CoordinatesToSweref99(coords))]
    /\ UNCHANGED reqs

\* wmsClient.getCapabilities() up to `await fetch(...)`: it returns the promise
\* of client.request, so its caller gets what request() returns or throws.
CallGetCapabilities(i, config) ==
    /\ calls[i].pc = "idle"
    /\ calls' = [calls EXCEPT ![i] =
                    AwaitingCall("getCapabilities", [config |-> config],
                                 [baseUrl |-> config.baseUrl], FALSE)]
    /\ reqs' = Append(reqs, NewRequest(i, config.baseUrl, "", getCapabilitiesParams(config)))

\* client.request(path, { params }) up to `await fetch(...)`.
CallRequest(i, target, params) ==
    /\ calls[i].pc = "idle"
    /\ calls' = [calls EXCEPT ![i] =
                    AwaitingCall("request", [target |-> target, params |-> params],
                                 [baseUrl |-> target.baseUrl], FALSE)]
    /\ reqs' = Append(reqs, NewRequest(i, target.baseUrl, target.path, params))

\* The shaping function of a data type, called on a response.
CallPointTransform(i, dataType, response) ==
    /\ calls[i].pc = "idle"
    /\ calls' = [calls EXCEPT ![i] =
                    SyncCall("pointTransform", [dataType |-> dataType, response |-> response],
                             Ok(PointTransform(dataType, response)))]
    /\ UNCHANGED reqs

CallGetFeatureInfo(i, config, options) ==
    /\ calls[i].pc = "idle"
    /\ calls' = [calls EXCEPT ![i] =
                    AwaitingCall("getFeatureInfo", [config |-> config, options |-> options],
                                 [baseUrl |-> config.baseUrl], FALSE)]
    /\ reqs' = Append(reqs, NewRequest(i, config.baseUrl, "",
                                       getFeatureInfoParams(config, options)))

(***************************************************************************)
(* The continuation of the call that awaits request r, once request() has  *)
(* returned or thrown: rs is reqs with request r settled.                  *)
(***************************************************************************)
Done(i, result) ==
    [calls EXCEPT ![i].pc = "done", ![i].result = result]

BedrockResult(c, result) ==
    IF c.op = "getBedrockHandler"
    THEN getBedrockHandlerOutput(Val(c.input).queryType, Val(c.input).bbox, result)
    ELSE result

ResumeGetBedrock(i, rs, outcome) ==
    LET c == calls[i]
        try == IF c.attempt = 1 THEN getBedrockTry(outcome, c.usedPolygonFilter)
               ELSE getBedrockRetried(outcome)
    IN  IF try.ok
        THEN /\ calls' = Done(i, Returned(BedrockResult(c, try.value)))
             /\ reqs' = rs
        ELSE IF c.attempt = 1 /\ getBedrockCatch(c.usedPolygonFilter) = "retry"
        THEN /\ calls' = [calls EXCEPT ![i].attempt = 2]
             /\ reqs' = Append(rs, NewRequest(i, SGU_OGC_BEDROCK_URL,
                                   getItemsPath(BEDROCK_COLLECTION),
                                   getItemsParams(getBedrockRetryOptions(
                                       Val(c.input).bbox, Val(c.input).limit))))
        ELSE IF c.attempt = 1
        THEN /\ calls' = Done(i, Raised(PlainError("Failed to fetch bedrock data")))
             /\ reqs' = rs
        ELSE /\ calls' = Done(i, Raised(try.error))
             /\ reqs' = rs

ResumePointQuery(i, rs, outcome) ==
    LET c == calls[i]
        info == getFeatureInfoSettled(outcome, Val(c.input).baseUrl)
    IN  /\ reqs' = rs
        /\ calls' =
             IF ~info.ok THEN Done(i, Raised(info.error))
             ELSE IF c.op = "queryPoint"
             THEN Done(i, Returned(queryPointHandlerOutput(Val(c.args),
                                                           transformInfo(info.value))))
             ELSE Done(i, Returned(info.value))

\* getItems after `await client.request`: response.features or the catch block.
ResumeGetItems(i, rs, outcome) ==
    LET items == getItemsSettled(outcome, Val(calls[i].input).baseUrl)
    IN  /\ reqs' = rs
        /\ calls' = IF items.ok THEN Done(i, Returned(items.value))
                    ELSE Done(i, Raised(items.error))

\* request() called on its own: its caller gets what it returns or throws.
ResumeRequest(i, rs, outcome) ==
    /\ reqs' = rs
    /\ calls' = IF outcome.ok THEN Done(i, Returned(outcome.value))
                ELSE Done(i, Raised(outcome.error))

Resume(r, settled, outcome) ==
    LET i == reqs[r].owner
        rs == [reqs EXCEPT ![r] = settled]
    IN  IF calls[i].op \in {"getBedrock", "getBedrockHandler"}
        THEN ResumeGetBedrock(i, rs, outcome)
        ELSE IF calls[i].op \in {"request", "getCapabilities"}
        THEN ResumeRequest(i, rs, outcome)
        ELSE IF calls[i].op = "getItems"
        THEN ResumeGetItems(i, rs, outcome)
        ELSE ResumePointQuery(i, rs, outcome)

(***************************************************************************)
(* lib/http-client.ts: the steps of one request().                         *)
(***************************************************************************)
\* clearTimeout(timeoutId)
ClearTimeout(req) ==
    [req EXCEPT !.timer = IF req.timer = "armed" THEN "cleared" ELSE req.timer]

RequestThrows(r, req, cause, error) ==
    LET thrown == RequestCatch(error, req.baseUrl)
    IN  Resume(r, [ClearTimeout(req) EXCEPT !.phase = "raised", !.cause = cause,
                                            !.error = thrown],
               Thrown(thrown))

\* fetch() resolves with the response headers.
FetchResolves(r, status, contentType) ==
    /\ reqs[r].phase = "fetching"
    /\ ~reqs[r].aborted
    /\ LET req == [ClearTimeout(reqs[r]) EXCEPT !.status = status,
                                               !.contentType = contentType]
       IN  IF status < 200 \/ status > 299
           THEN RequestThrows(r, req, "http", HttpStatusError(status, req.baseUrl))
           ELSE /\ reqs' = [reqs EXCEPT ![r] = [req EXCEPT !.phase = "body"]]
                /\ UNCHANGED calls

\* fetch() rejects: the network failed.
FetchRejects(r) ==
    /\ reqs[r].phase = "fetching"
    /\ ~reqs[r].aborted
    /\ RequestThrows(r, reqs[r], "network", TypeError("fetch failed"))

\* A timer that aborts through one AbortController shared by every request.
TimeoutElapses_SharedController(r) ==
    /\ reqs[r].phase \in {"fetching", "body"}
    /\ ~reqs[r].overdue
    /\ reqs' = [q \in DOMAIN reqs |->
                  IF q = r
                  THEN [reqs[q] EXCEPT !.overdue = TRUE,
                                       !.timer = IF @ = "armed" THEN "fired" ELSE @,
                                       !.aborted = (reqs[r].timer = "armed")]
                  ELSE IF reqs[r].timer = "armed" /\ reqs[q].phase = "fetching"
                  THEN [reqs[q] EXCEPT !.aborted = TRUE]
                  ELSE reqs[q]]
    /\ UNCHANGED calls

\* The timeout of the request elapses while request() has neither returned
\* nor thrown; the timer, if still set, calls controller.abort().
TimeoutElapses(r) ==
    /\ reqs[r].phase \in {"fetching", "body"}
    /\ ~reqs[r].overdue
    /\ reqs' = [reqs EXCEPT ![r].overdue = TRUE,
                            ![r].timer = IF @ = "armed" THEN "fired" ELSE @,
                            ![r].aborted = (reqs[r].timer = "armed")]
    /\ UNCHANGED calls

\* fetch() rejects with AbortError after controller.abort().
FetchAborted(r) ==
    /\ reqs[r].phase = "fetching"
    /\ reqs[r].aborted
    /\ RequestThrows(r, reqs[r], "timeout",
                     [PlainError("This operation was aborted") EXCEPT !.name = "AbortError"])

\* response.text() or response.json() settles.
BodyRead(r, payload) ==
    /\ reqs[r].phase = "body"
    /\ IF IsTextContent(reqs[r].contentType)
       THEN /\ payload = [valid |-> TRUE, features |-> None]
            /\ Resume(r, [reqs[r] EXCEPT !.phase = "returned",
                                         !.body = Some([isText |-> TRUE, features |-> None])],
                      Ok([isText |-> TRUE, features |-> None]))
       ELSE IF ~payload.valid
       THEN RequestThrows(r, reqs[r], "body", [PlainError("Unexpected token") EXCEPT
                                                  !.name = "SyntaxError"])
       ELSE Resume(r, [reqs[r] EXCEPT !.phase = "returned",
                                      !.body = Some([isText |-> FALSE,
                                                     features |-> payload.features])],
                   Ok([isText |-> FALSE, features |-> payload.features]))

\* The calls that have not started yet.
IdleCalls == {i \in DOMAIN calls : calls[i].pc = "idle"}

\* The requests on which request() has neither returned nor thrown.
OpenRequests == {r \in DOMAIN reqs : reqs[r].phase \in {"fetching", "body"}}

Next ==
    \/ \E i \in IdleCalls, args \in BedrockArgs : CallGetBedrockHandler(i, args)
    \/ \E i \in IdleCalls, bbox \in SwerefBoxes, corridor \in FacadeCorridors :
          CallGetBedrock(i, bbox, corridor)
    \/ \E i \in IdleCalls, legendKey \in DOMAIN MapMethods, args \in MapToolArgs :
          CallMapTool(i, legendKey, args)
    \/ \E i \in IdleCalls, args \in QueryPointArgs : CallQueryPoint(i, args)
    \/ \E i \in IdleCalls, config \in WmsConfigs, options \in GetMapOptions :
          CallGetMapUrl(i, config, options)
    \/ \E i \in IdleCalls, config \in WmsConfigs, layer \in {"A", "B"},
          format \in {None, Some("image/jpeg")} : CallGetLegendUrl(i, config, layer, format)
    \/ \E i \in IdleCalls, config \in WmsConfigs, options \in GetFeatureInfoOptions :
          CallGetFeatureInfo(i, config, options)
    \/ \E i \in IdleCalls, options \in GetItemsOptions : CallGetItems(i, options)
    \/ \E i \in IdleCalls, bbox \in BboxInputs : CallValidateBbox(i, bbox)
    \/ \E i \in IdleCalls, corridor \in CorridorInputs : CallCorridorToBoundingBox(i, corridor)
    \/ \E i \in IdleCalls, corridor \in CorridorInputs : CallCorridorToWktPolygon(i, corridor)
    \/ \E i \in IdleCalls, point \in Wgs84Inputs : CallWgs84ToSweref99(i, point)
    \/ \E i \in IdleCalls, coords \in Wgs84CoordinateInputs :
          CallWgs84CoordinatesToSweref99(i, coords)
    \/ \E i \in IdleCalls, config \in WmsConfigs : CallGetCapabilities(i, config)
    \/ \E i \in IdleCalls,
          target \in {[baseUrl |-> SGU_OGC_BEDROCK_URL,
                       path |-> "collections/geologisk-enhet-yta/items"],
                      [baseUrl |-> SGU_WMS_BEDROCK_URL, path |-> ""],
                      [baseUrl |-> MAPFILE_BASE_URL, path |-> ""]},
          params \in [LAYERS : {None, Some(""), Some("A")},
                      limit : {None, Some(0), Some(10)},
                      map : {None, Some(""), Some("other.map")}] :
          CallRequest(i, target, params)
    \/ \E i \in IdleCalls, dataType \in DATA_TYPES :
          \E response \in InfoResponses(dataType) : CallPointTransform(i, dataType, response)
    \/ \E r \in OpenRequests, status \in Statuses, contentType \in ContentTypes :
          FetchResolves(r, status, contentType)
    \/ \E r \in OpenRequests : FetchRejects(r)
    \/ \E r \in OpenRequests : TimeoutElapses(r)
    \/ \E r \in OpenRequests : FetchAborted(r)
    \/ \E r \in OpenRequests, payload \in Payloads : BodyRead(r, payload)

Spec == Init /\ [][Next]_vars

(***************************************************************************)
(* Concurrent invocations: two calls of the facade,      each of them a    *)
(* getBedrock call or a point query, their requests interleaved at will.   *)
(***************************************************************************)
\* The two invocations.
ConcurrentCalls == {1, 2}

ConcurrentInit ==
    /\ calls = [i \in ConcurrentCalls |-> IdleCall]
    /\ reqs = <<>>

ConcurrentNext ==
    \/ \E i \in IdleCalls,
          bbox \in {[minX |-> 670000, minY |-> 6570000, maxX |-> 680000, maxY |-> 6590000]},
          corridor \in {None,
                        Some([coordinates |-> <<[x |-> 670000, y |-> 6570000],
                                                [x |-> 680000, y |-> 6580000]>>,
                              bufferMeters |-> 100])} :
          CallGetBedrock(i, bbox, corridor)
    \/ \E i \in IdleCalls,
          args \in {[latitude |-> 59, longitude |-> 18, dataType |-> "bedrock"],
                    [latitude |-> 54, longitude |-> 18, dataType |-> "well"]} :
          CallQueryPoint(i, args)
    \/ \E r \in OpenRequests, status \in {200, 503}, contentType \in {"application/json"} :
          FetchResolves(r, status, contentType)
    \/ \E r \in OpenRequests : FetchRejects(r)
    \/ \E r \in OpenRequests : TimeoutElapses(r)
    \/ \E r \in OpenRequests : FetchAborted(r)
    \/ \E r \in OpenRequests, payload \in Payloads : BodyRead(r, payload)

ConcurrentSpec == ConcurrentInit /\ [][ConcurrentNext]_vars

(***************************************************************************)
(* Properties.                                                             *)
(***************************************************************************)
BedrockCalls ==
    {i \in DOMAIN calls : calls[i].op \in {"getBedrock", "getBedrockHandler"}
                          /\ IsDef(calls[i].input)}

\* The requests of call i, in the order it issued them.
RequestSeqOf(i) == SelectSeq([r \in DOMAIN reqs |-> r], LAMBDA r : reqs[r].owner = i)

HasFilter(r) == "filter" \in DOMAIN reqs[r].params

HasBbox(r) == "bbox" \in DOMAIN reqs[r].params

\* usedPolygonFilter of the result of a bedrock call that returned.
ResultUsedPolygonFilter(i) ==
    IF calls[i].op = "getBedrockHandler"
    THEN calls[i].result.value.used_polygon_filter
    ELSE calls[i].result.value.usedPolygonFilter

\* C1: for a getBedrock call whose first request carries the polygon filter:
\* if that request failed, a second request with the bbox and without filter
\* has been issued, and a result that follows has usedPolygonFilter = false;
\* if that request succeeded, no second request is issued and the result has
\* usedPolygonFilter = true.
C1_PolygonFallback ==
    \A i \in BedrockCalls :
        LET rs == RequestSeqOf(i)
        IN  HasFilter(rs[1]) =>
              /\ reqs[rs[1]].phase = "raised" =>
                    /\ Len(rs) = 2
                    /\ HasBbox(rs[2]) /\ ~HasFilter(rs[2])
                    /\ reqs[rs[2]].params.bbox = bboxToString(Val(calls[i].input).bbox)
                    /\ calls[i].result.kind = "returned" => ~ResultUsedPolygonFilter(i)
              /\ reqs[rs[1]].phase = "returned" =>
                    /\ Len(rs) = 1
                    /\ calls[i].result.kind = "returned" => ResultUsedPolygonFilter(i)

\* C2: a getBedrock call issues one or two requests: one if its first request
\* carries no polygon filter, whatever became of it; a second one only after
\* a polygon-filter request has settled; never a third.
C2_AtMostOneRetry ==
    \A i \in BedrockCalls :
        LET rs == RequestSeqOf(i)
        IN  /\ Len(rs) \in {1, 2}
            /\ ~HasFilter(rs[1]) => Len(rs) = 1
            /\ Len(rs) = 2 => /\ HasFilter(rs[1])
                              /\ reqs[rs[1]].phase \in {"returned", "raised"}
                              /\ ~HasFilter(rs[2])

C2_Witness ==
    \E i \in BedrockCalls :
        /\ calls[i].pc = "done"
        /\ Len(RequestSeqOf(i)) = 2
        /\ \A r \in RequestsOf(i) : reqs[r].phase = "raised"

\* C3: when the polygon-filter request failed and the bbox retry failed too,
\* getBedrock ends by raising the generic 'Failed to fetch bedrock data' error.
C3_RetryFailureIsGeneric ==
    \A i \in BedrockCalls :
        LET rs == RequestSeqOf(i)
        IN  (/\ Len(rs) = 2
             /\ reqs[rs[1]].phase = "raised"
             /\ reqs[rs[2]].phase = "raised") =>
                /\ calls[i].result.kind = "raised"
                /\ calls[i].result.error = PlainError("Failed to fetch bedrock data")

\* C4: when corridorToWktPolygon throws for the corridor given to getBedrock,
\* the call surfaces no error from it: it issues its query with the bbox and
\* without filter, and a result that follows has usedPolygonFilter = false.
PolygonThrows(i) ==
    /\ IsDef(Val(calls[i].input).corridor)
    /\ ~corridorToWktPolygon(Val(Val(calls[i].input).corridor)).ok

C4_PolygonFailureFallsBack ==
    \A i \in BedrockCalls :
        PolygonThrows(i) =>
            LET rs == RequestSeqOf(i)
            IN  /\ Len(rs) = 1
                /\ HasBbox(rs[1]) /\ ~HasFilter(rs[1])
                /\ reqs[rs[1]].params.bbox = bboxToString(Val(calls[i].input).bbox)
                /\ calls[i].result.kind = "returned" => ~ResultUsedPolygonFilter(i)
                /\ calls[i].result.kind = "raised" =>
                      calls[i].result.error.name \notin {"ValidationError", "TypeError"}

C4_Witness ==
    \E i \in BedrockCalls :
        /\ PolygonThrows(i)
        /\ corridorToWktPolygon(Val(Val(calls[i].input).corridor)).error.name = "TypeError"
        /\ calls[i].result.kind = "returned"

\* The two envelopes and the BoundingBox invariant, as the data model states
\* them.
InSwedenWgs84(latitude, longitude) ==
    latitude \in 55..69 /\ longitude \in 11..24

InSwedenSweref(x, y) ==
    x \in 200000..1000000 /\ y \in 6100000..7700000

BoundingBoxInvariant(box) ==
    /\ box.minX < box.maxX
    /\ box.minY < box.maxY
    /\ InSwedenSweref(box.minX, box.minY)
    /\ InSwedenSweref(box.maxX, box.maxY)

Projected(latitude, longitude) == Proj4Table[<<latitude, longitude>>]

\* The geometry arguments of the bedrock and map handlers that fail
\* validation: no usable geometry, a point or corner outside Sweden, inverted
\* min/max, or a box in SWEREF99TM that breaks the BoundingBox invariant.
InvalidGeometryArgs(args) ==
    IF IsDef(args.coordinates) /\ Len(Val(args.coordinates)) >= 2
    THEN LET pts == Val(args.coordinates)
             xs == {Projected(pts[k].latitude, pts[k].longitude)[1] : k \in 1..Len(pts)}
             ys == {Projected(pts[k].latitude, pts[k].longitude)[2] : k \in 1..Len(pts)}
             b  == IF IsDef(args.bufferMeters) THEN Val(args.bufferMeters) ELSE 500
         IN  \/ \E k \in 1..Len(pts) : ~InSwedenWgs84(pts[k].latitude, pts[k].longitude)
             \/ ~BoundingBoxInvariant([minX |-> MinOf(xs) - b, minY |-> MinOf(ys) - b,
                                       maxX |-> MaxOf(xs) + b, maxY |-> MaxOf(ys) + b])
    ELSE IF IsDef(args.minLat) /\ IsDef(args.minLon) /\ IsDef(args.maxLat) /\ IsDef(args.maxLon)
    THEN LET minLat == Val(args.minLat)
             minLon == Val(args.minLon)
             maxLat == Val(args.maxLat)
             maxLon == Val(args.maxLon)
         IN  \/ ~InSwedenWgs84(minLat, minLon)
             \/ ~InSwedenWgs84(maxLat, maxLon)
             \/ minLat >= maxLat
             \/ minLon >= maxLon
             \/ ~BoundingBoxInvariant([minX |-> Projected(minLat, minLon)[1],
                                       minY |-> Projected(minLat, minLon)[2],
                                       maxX |-> Projected(maxLat, maxLon)[1],
                                       maxY |-> Projected(maxLat, maxLon)[2]])
    ELSE TRUE

FailsValidation(i) ==
    IF calls[i].op = "queryPoint"
    THEN ~InSwedenWgs84(Val(calls[i].args).latitude, Val(calls[i].args).longitude)
    ELSE InvalidGeometryArgs(Val(calls[i].args))

EndedWithValidationError(i) ==
    /\ calls[i].pc = "done"
    /\ calls[i].result.kind = "raised"
    /\ calls[i].result.error.name = "ValidationError"

VersionIndependent(params) ==
    [k \in DOMAIN params \ {"VERSION", "SRS", "CRS", "BBOX"} |-> params[k]]

\* C6: the GetMap URL of a 1.1.1 client carries BBOX=minX,minY,maxX,maxY under
\* SRS, that of a 1.3.0 client BBOX=minY,minX,maxY,maxX under CRS, and for the
\* same options the two URLs agree on every other parameter but VERSION.
C6_GetMapAxisOrder ==
    \A i \in DOMAIN calls :
        (calls[i].op = "getMapUrl" /\ calls[i].pc = "done") =>
            LET config == Val(calls[i].args).config
                options == Val(calls[i].args).options
                bbox == options.bbox
                url == calls[i].result.value
                version == IF IsDef(config.version) THEN Val(config.version) ELSE "1.3.0"
                other == [config EXCEPT !.version =
                             IF version = "1.1.1" THEN Some("1.3.0") ELSE Some("1.1.1")]
            IN  /\ url.params.VERSION = version
                /\ version = "1.1.1" =>
                      /\ url.params.BBOX = <<bbox.minX, bbox.minY, bbox.maxX, bbox.maxY>>
                      /\ "SRS" \in DOMAIN url.params /\ "CRS" \notin DOMAIN url.params
                      /\ url.params.SRS = "EPSG:3006"
                /\ version = "1.3.0" =>
                      /\ url.params.BBOX = <<bbox.minY, bbox.minX, bbox.maxY, bbox.maxX>>
                      /\ "CRS" \in DOMAIN url.params /\ "SRS" \notin DOMAIN url.params
                      /\ url.params.CRS = "EPSG:3006"
                /\ VersionIndependent(url.params) =
                      VersionIndependent(getMapUrl(other, options).params)
                /\ url.base = getMapUrl(other, options).base

C6_Witness ==
    \E i \in DOMAIN calls :
        /\ calls[i].op = "getMapUrl" /\ calls[i].pc = "done"
        /\ Val(calls[i].args).config.version = Some("1.1.1")
        /\ "SRS" \in DOMAIN calls[i].result.value.params

\* The GetFeatureInfo options behind request r.
InfoOptionsOf(r) ==
    LET c == calls[reqs[r].owner]
    IN  IF c.op = "getFeatureInfo" THEN Val(c.args).options
        ELSE PointQueryOptions(PointMethods[Val(c.args).dataType].layers,
                 [x |-> Projected(Val(c.args).latitude, Val(c.args).longitude)[1],
                  y |-> Projected(Val(c.args).latitude, Val(c.args).longitude)[2]])

GetFeatureInfoRequests ==
    {r \in DOMAIN reqs : "REQUEST" \in DOMAIN reqs[r].params
                         /\ reqs[r].params.REQUEST = "GetFeatureInfo"}

\* C7: a GetFeatureInfo request of a 1.1.1 client carries X, Y, SRS and
\* BBOX=minX,minY,maxX,maxY, that of a 1.3.0 client I, J, CRS and
\* BBOX=minY,minX,maxY,maxX; none mixes the two, and QUERY_LAYERS = LAYERS.
C7_FeatureInfoConventions ==
    \A r \in GetFeatureInfoRequests :
        LET p == reqs[r].params
            o == InfoOptionsOf(r)
            keys == DOMAIN p \cap {"X", "Y", "I", "J", "SRS", "CRS"}
        IN  /\ p.VERSION \in {"1.1.1", "1.3.0"}
            /\ p.VERSION = "1.1.1" =>
                  /\ keys = {"X", "Y", "SRS"}
                  /\ p.X = o.x /\ p.Y = o.y
                  /\ p.BBOX = <<o.bbox.minX, o.bbox.minY, o.bbox.maxX, o.bbox.maxY>>
            /\ p.VERSION = "1.3.0" =>
                  /\ keys = {"I", "J", "CRS"}
                  /\ p.I = o.x /\ p.J = o.y
                  /\ p.BBOX = <<o.bbox.minY, o.bbox.minX, o.bbox.maxY, o.bbox.maxX>>
            /\ p.QUERY_LAYERS = p.LAYERS

C7_Witness ==
    \E r \in GetFeatureInfoRequests :
        /\ reqs[r].params.VERSION = "1.1.1"
        /\ "X" \in DOMAIN reqs[r].params
        /\ reqs[r].phase = "returned"

\* C8: getMapUrl, getLegendUrl and the map handlers end at once with their
\* result and issue no HTTP request.
C8_UrlBuildersIssueNoRequest ==
    \A i \in DOMAIN calls :
        calls[i].op \in {"getMapUrl", "getLegendUrl", "mapTool"} =>
            /\ calls[i].pc = "done"
            /\ RequestsOf(i) = {}
            /\ calls[i].op # "mapTool" => calls[i].result.kind = "returned"

C8_Witness ==
    \E i \in DOMAIN calls :
        /\ calls[i].op = "mapTool"
        /\ calls[i].result.kind = "returned"
        /\ calls[i].result.value.map_url.params.REQUEST = "GetMap"
        /\ reqs = <<>>

\* C9: a request whose timeout elapsed before it returned or raised has been
\* aborted, in every phase, and does not end by returning: it is pending only
\* until the abort is delivered and then raises UpstreamApiError with status 0.
C9_TimeoutBoundsEveryPhase ==
    \A r \in DOMAIN reqs :
        reqs[r].overdue =>
            /\ reqs[r].aborted
            /\ reqs[r].phase \in {"fetching", "raised"}
            /\ reqs[r].phase = "raised" =>
                  /\ reqs[r].error.name = "UpstreamApiError"
                  /\ reqs[r].error.statusCode = 0

\* C10: a request that fails raises an UpstreamApiError carrying the base URL
\* of its client; its status code is the HTTP status when a non-2xx answer
\* came, and 0 after a timeout, a network failure or an unreadable body.
C10_TransportErrors ==
    \A r \in DOMAIN reqs :
        reqs[r].phase = "raised" =>
            /\ reqs[r].error.name = "UpstreamApiError"
            /\ reqs[r].error.upstream = reqs[r].baseUrl
            /\ reqs[r].cause \in {"http", "timeout", "network", "body"}
            /\ reqs[r].cause = "http" =>
                  /\ reqs[r].error.statusCode = reqs[r].status
                  /\ reqs[r].status \notin 200..299
            /\ reqs[r].cause \in {"timeout", "network", "body"} =>
                  reqs[r].error.statusCode = 0

C10_Witness ==
    \E r \in DOMAIN reqs :
        /\ reqs[r].phase = "raised"
        /\ reqs[r].cause = "body"
        /\ reqs[r].error.statusCode = 0

\* Errors other than UpstreamApiError that the catch blocks of getItems and
\* getFeatureInfo may be handed.
OtherErrors ==
    {TypeError("Cannot read properties of null (reading 'features')"),
     PlainError("socket hang up"),
     [PlainError("This operation was aborted") EXCEPT !.name = "AbortError"]}

ProtocolCalls == {i \in DOMAIN calls : calls[i].op \in {"getItems", "getFeatureInfo"}}

ProtocolSettled(i, outcome) ==
    IF calls[i].op = "getItems"
    THEN getItemsSettled(outcome, Val(calls[i].input).baseUrl)
    ELSE getFeatureInfoSettled(outcome, Val(calls[i].input).baseUrl)

\* C11: a getItems or getFeatureInfo call that fails raises an UpstreamApiError:
\* the UpstreamApiError its request raised, unchanged, and for any other error
\* an UpstreamApiError with status 0 and the base URL of the client.
C11_ProtocolErrorsAreUpstream ==
    \A i \in ProtocolCalls :
        /\ calls[i].result.kind = "raised" =>
              calls[i].result.error.name = "UpstreamApiError"
        /\ \A r \in RequestsOf(i) :
              reqs[r].phase = "raised" =>
                  /\ calls[i].pc = "done"
                  /\ calls[i].result.kind = "raised"
                  /\ calls[i].result.error = reqs[r].error
        /\ \A e \in OtherErrors :
              LET settled == ProtocolSettled(i, Thrown(e))
              IN  /\ ~settled.ok
                  /\ settled.error.name = "UpstreamApiError"
                  /\ settled.error.statusCode = 0
                  /\ settled.error.upstream = Val(calls[i].input).baseUrl

C11_Witness ==
    \E i \in ProtocolCalls :
        /\ calls[i].op = "getItems"
        /\ calls[i].result.kind = "raised"
        /\ calls[i].result.error.statusCode = 503
        /\ \E r \in RequestsOf(i) : reqs[r].error = calls[i].result.error

\* The requests made by getItems, from getBedrock or from a call of its own.
GetItemsRequests ==
    {r \in DOMAIN reqs :
        /\ reqs[r].baseUrl = SGU_OGC_BEDROCK_URL
        /\ calls[reqs[r].owner].op \in {"getItems", "getBedrock", "getBedrockHandler"}}

\* The options getItems was called with for request r.
GetItemsOptionsOf(r) ==
    LET c == calls[reqs[r].owner]
        n == Len(SelectSeq([k \in 1..r |-> k], LAMBDA k : reqs[k].owner = reqs[r].owner))
    IN  IF c.op = "getItems" THEN Val(c.args)
        ELSE LET input == Val(c.input)
                 polygon == IF IsDef(input.corridor)
                            THEN corridorToWktPolygon(Val(input.corridor))
                            ELSE Thrown(PlainError(""))
             IN  IF n = 1 /\ polygon.ok
                 THEN [bbox |-> None, polygonWkt |-> Some(polygon.value),
                       limit |-> input.limit, crs |-> None]
                 ELSE [bbox |-> Some(input.bbox), polygonWkt |-> None,
                       limit |-> input.limit, crs |-> None]

FilterParams == {"filter", "filter-lang", "filter-crs"}

ShortEpsgForms == {"EPSG:3006", "EPSG:4326"}

\* C12: a getItems request carries crs and bbox-crs in short EPSG form; given
\* a non-empty polygon WKT it carries filter=INTERSECTS(geom,<wkt>),
\* filter-lang=cql-text, filter-crs=<crs> and no bbox, whether or not a bbox
\* was given; given no polygon and a bbox it carries bbox=minX,minY,maxX,maxY
\* and no filter parameter; it never carries both bbox and filter.
C12_GetItemsParameters ==
    \A r \in GetItemsRequests :
        LET p == reqs[r].params
            o == GetItemsOptionsOf(r)
        IN  /\ {"crs", "bbox-crs"} \subseteq DOMAIN p
            /\ p["crs"] \in ShortEpsgForms
            /\ p["bbox-crs"] = p["crs"]
            /\ (o.polygonWkt # None /\ o.polygonWkt # Some(EmptyWkt)) =>
                  /\ FilterParams \subseteq DOMAIN p
                  /\ p["filter"] = [fn |-> "INTERSECTS", geom |-> "geom",
                                    wkt |-> o.polygonWkt[1]]
                  /\ p["filter-lang"] = "cql-text"
                  /\ p["filter-crs"] = p["crs"]
                  /\ "bbox" \notin DOMAIN p
            /\ (o.polygonWkt = None /\ o.bbox # None) =>
                  /\ "bbox" \in DOMAIN p
                  /\ p["bbox"] = <<o.bbox[1].minX, o.bbox[1].minY,
                                   o.bbox[1].maxX, o.bbox[1].maxY>>
                  /\ FilterParams \cap DOMAIN p = {}
            /\ ~("bbox" \in DOMAIN p /\ "filter" \in DOMAIN p)

C12_Witness ==
    \E r \in GetItemsRequests :
        /\ calls[reqs[r].owner].op = "getItems"
        /\ GetItemsOptionsOf(r).bbox # None
        /\ GetItemsOptionsOf(r).polygonWkt \notin {None, Some(EmptyWkt)}
        /\ "filter" \in DOMAIN reqs[r].params
        /\ "bbox" \notin DOMAIN reqs[r].params

ValidateBboxCalls == {i \in DOMAIN calls : calls[i].op = "validateBbox"}

\* C13: validateBbox raises ValidationError for a bbox with minX >= maxX or
\* minY >= maxY, with the minX message whenever minX >= maxX, and for a bbox
\* with a corner outside x in [200000, 1000000], y in [6100000, 7700000]; it
\* returns for every other bbox, the bounds included, and changes nothing.
C13_ValidateBbox ==
    \A i \in ValidateBboxCalls :
        LET bbox == Val(calls[i].args)
            result == calls[i].result
            inverted == bbox.minX >= bbox.maxX \/ bbox.minY >= bbox.maxY
            outside == \/ ~InSwedenSweref(bbox.minX, bbox.minY)
                       \/ ~InSwedenSweref(bbox.maxX, bbox.maxY)
        IN  /\ calls[i].pc = "done"
            /\ (inverted \/ outside) =>
                  /\ result.kind = "raised"
                  /\ result.error.name = "ValidationError"
            /\ bbox.minX >= bbox.maxX =>
                  result.error.message = "minX must be less than maxX"
            /\ (bbox.minX < bbox.maxX /\ bbox.minY >= bbox.maxY) =>
                  result.error.message = "minY must be less than maxY"
            /\ (~inverted /\ ~outside) => result.kind = "returned"
            /\ reqs = <<>>

C13_Witness ==
    \E i \in ValidateBboxCalls :
        /\ Val(calls[i].args) = [minX |-> 200000, minY |-> 6100000,
                                 maxX |-> 1000000, maxY |-> 7700000]
        /\ calls[i].result.kind = "returned"

\* The calls of corridorToBoundingBox on a corridor of at least 2 vertices.
EnvelopeCalls ==
    {i \in DOMAIN calls : /\ calls[i].op = "corridorToBoundingBox"
                          /\ Len(Val(calls[i].args).coordinates) >= 2}

\* The orders in which the vertices of coords can be given.
Reorderings(coords) ==
    {[k \in 1..Len(coords) |-> coords[q[k]]] :
        q \in {f \in [1..Len(coords) -> 1..Len(coords)] :
                  \A a, b \in 1..Len(coords) : f[a] = f[b] => a = b}}

\* C14: for a corridor of at least 2 vertices corridorToBoundingBox returns
\* the least vertex x and y minus bufferMeters and the greatest vertex x and y
\* plus bufferMeters, in whatever order the vertices are given.
C14_CorridorEnvelope ==
    \A i \in EnvelopeCalls :
        LET coords == Val(calls[i].args).coordinates
            b == Val(calls[i].args).bufferMeters
            ks == 1..Len(coords)
        IN  /\ calls[i].result.kind = "returned"
            /\ LET box == calls[i].result.value
               IN  /\ \A k \in ks : /\ box.minX + b <= coords[k].x
                                    /\ box.minY + b <= coords[k].y
                                    /\ box.maxX - b >= coords[k].x
                                    /\ box.maxY - b >= coords[k].y
                   /\ \E k \in ks : box.minX + b = coords[k].x
                   /\ \E k \in ks : box.minY + b = coords[k].y
                   /\ \E k \in ks : box.maxX - b = coords[k].x
                   /\ \E k \in ks : box.maxY - b = coords[k].y
                   /\ \A other \in Reorderings(coords) :
                         corridorToBoundingBox([coordinates |-> other, bufferMeters |-> b])
                             = Ok(box)

C14_Witness ==
    \E i \in EnvelopeCalls :
        /\ Val(calls[i].args).coordinates =
              <<[x |-> 670000, y |-> 6570000], [x |-> 680000, y |-> 6580000],
                [x |-> 670000, y |-> 6590000]>>
        /\ Val(calls[i].args).bufferMeters = 500
        /\ calls[i].result.value =
              [minX |-> 669500, minY |-> 6569500, maxX |-> 680500, maxY |-> 6590500]

\* C15: for the same coordinates, the box corridorToBoundingBox returns for a
\* buffer b2 greater than b1 contains the box it returns for b1.
C15_BufferMonotone ==
    \A i \in EnvelopeCalls :
        LET coords == Val(calls[i].args).coordinates
            b1 == Val(calls[i].args).bufferMeters
            box1 == calls[i].result.value
        IN  \A b2 \in BufferInputs \cup {b1 + 1} :
                b2 > b1 =>
                    LET box2 == corridorToBoundingBox(
                                    [coordinates |-> coords, bufferMeters |-> b2]).value
                    IN  /\ box2.minX <= box1.minX
                        /\ box2.minY <= box1.minY
                        /\ box2.maxX >= box1.maxX
                        /\ box2.maxY >= box1.maxY

C15_Witness ==
    \E i \in EnvelopeCalls :
        /\ Val(calls[i].args).bufferMeters = 100
        /\ calls[i].result.kind = "returned"
        /\ corridorToBoundingBox([coordinates |-> Val(calls[i].args).coordinates,
                                  bufferMeters |-> 500]).value.minX
              = calls[i].result.value.minX - 400

\* The coordinates given to a call of one of the three corridor functions.
CoordinatesGiven(i) ==
    IF calls[i].op = "wgs84CoordinatesToSweref99" THEN Val(calls[i].args)
    ELSE Val(calls[i].args).coordinates

CorridorFunctionCalls ==
    {i \in DOMAIN calls :
        calls[i].op \in {"corridorToBoundingBox", "corridorToWktPolygon",
                         "wgs84CoordinatesToSweref99"}}

\* C16: corridorToBoundingBox, corridorToWktPolygon and
\* wgs84CoordinatesToSweref99 raise ValidationError when given 0 or 1
\* coordinates, and give no result.
C16_FewerThanTwoCoordinates ==
    \A i \in CorridorFunctionCalls :
        Len(CoordinatesGiven(i)) < 2 =>
            /\ calls[i].pc = "done"
            /\ calls[i].result.kind = "raised"
            /\ calls[i].result.error.name = "ValidationError"
            /\ calls[i].result.value = None

C16_Witness ==
    \E i \in CorridorFunctionCalls :
        /\ calls[i].op = "wgs84CoordinatesToSweref99"
        /\ CoordinatesGiven(i) = <<[latitude |-> 59, longitude |-> 18]>>
        /\ calls[i].result.error.name = "ValidationError"
        /\ calls[i].result.error.message = "Corridor must have at least 2 coordinate points"

\* The calls of corridorToWktPolygon on a corridor of at least 2 vertices.
PolygonCalls ==
    {i \in DOMAIN calls : /\ calls[i].op = "corridorToWktPolygon"
                          /\ Len(Val(calls[i].args).coordinates) >= 2}

\* C17: for a corridor of at least 2 vertices, k of them with a direction
\* vector of non-zero length, corridorToWktPolygon returns a ring of 2k+1
\* points: the left offsets of those k vertices in corridor order, their right
\* offsets in reverse order, and the first left offset again.
C17_PolygonRing ==
    \A i \in PolygonCalls :
        LET coords == Val(calls[i].args).coordinates
            buffer == Val(calls[i].args).bufferMeters
            kept == SelectSeq([j \in 1..Len(coords) |-> j],
                              LAMBDA j : Direction(coords, j) # <<0, 0>>)
            k == Len(kept)
        IN  /\ calls[i].result.kind = "returned"
            /\ LET ring == calls[i].result.value.ring
               IN  /\ Len(ring) = 2 * k + 1
                   /\ ring[1] = ring[2 * k + 1]
                   /\ \A m \in 1..k :
                         /\ ring[m] = OffsetPoint(coords[kept[m]],
                                                  Direction(coords, kept[m]), 1, buffer)
                         /\ ring[2 * k + 1 - m] =
                               OffsetPoint(coords[kept[m]],
                                           Direction(coords, kept[m]), -1, buffer)

\* The point queries that got past the conversion of their point.
PointQueries == {i \in DOMAIN calls : calls[i].op = "queryPoint" /\ IsDef(calls[i].input)}

\* C18: a point query issues exactly one request, a GetFeatureInfo whose bbox
\* is {x-100, y-100, x+100, y+100} around the queried point, whose WIDTH and
\* HEIGHT are 256 and whose pixel is (128, 128), for the layers of its data
\* type; when the request returns, the query returns the shaping of its body.
C18_PointQueryRequest ==
    \A i \in PointQueries :
        LET args == Val(calls[i].args)
            x == Projected(args.latitude, args.longitude)[1]
            y == Projected(args.latitude, args.longitude)[2]
            rs == RequestSeqOf(i)
        IN  /\ Len(rs) = 1
            /\ LET p == reqs[rs[1]].params
               IN  /\ p.REQUEST = "GetFeatureInfo"
                   /\ p.VERSION = "1.3.0"
                   /\ p.BBOX = <<y - 100, x - 100, y + 100, x + 100>>
                   /\ p.WIDTH = 256 /\ p.HEIGHT = 256
                   /\ p.I = 128 /\ p.J = 128
                   /\ p.LAYERS = PointMethods[args.dataType].layers
            /\ reqs[rs[1]].phase = "returned" =>
                  /\ calls[i].result.kind = "returned"
                  /\ calls[i].result.value.data = transformInfo(Val(reqs[rs[1]].body))
            /\ reqs[rs[1]].phase = "raised" =>
                  calls[i].result.kind = "raised"

C18_Witness ==
    \E i \in PointQueries :
        /\ Val(calls[i].args).dataType = "soil_type"
        /\ calls[i].result.kind = "returned"
        /\ reqs[RequestSeqOf(i)[1]].params.I = 128
        /\ reqs[RequestSeqOf(i)[1]].params.BBOX = <<6543820, 672220, 6544020, 672420>>

\* The features of the body that request r returned.
FeaturesReturned(r) ==
    IF IsDef(Val(reqs[r].body).features) THEN Val(Val(reqs[r].body).features) ELSE <<>>

C20_Wgs84Envelope ==
    \A i \in DOMAIN calls :
        /\ calls[i].op = "wgs84ToSweref99" =>
              LET point == Val(calls[i].args)
              IN  IF InSwedenWgs84(point.latitude, point.longitude)
                  THEN calls[i].result.kind = "returned"
                  ELSE /\ calls[i].result.kind = "raised"
                       /\ calls[i].result.error.name = "ValidationError"
        /\ calls[i].op = "wgs84CoordinatesToSweref99" =>
              LET coords == Val(calls[i].args)
              IN  (\E k \in 1..Len(coords) :
                      ~InSwedenWgs84(coords[k].latitude, coords[k].longitude)) =>
                      /\ calls[i].result.kind = "raised"
                      /\ calls[i].result.error.name = "ValidationError"
                      /\ calls[i].result.value = None

C20_Witness ==
    \E i \in DOMAIN calls :
        /\ calls[i].op = "wgs84ToSweref99"
        /\ Val(calls[i].args) = [latitude |-> 69, longitude |-> 24]
        /\ calls[i].result.kind = "returned"
        /\ calls[i].result.value = [x |-> 858846, y |-> 7680742]

\* The calls of wgs84ToSweref99 on a point inside the WGS84 envelope.
TransformCalls ==
    {i \in DOMAIN calls :
        /\ calls[i].op = "wgs84ToSweref99"
        /\ InSwedenWgs84(Val(calls[i].args).latitude, Val(calls[i].args).longitude)}

\* C21: for a point with latitude in [55, 69] and longitude in [11, 24],
\* wgs84ToSweref99 returns a point with x in [200000, 1000000] and y in
\* [6100000, 7700000].
C21_TransformStaysInEnvelope ==
    \A i \in TransformCalls :
        /\ calls[i].result.kind = "returned"
        /\ InSwedenSweref(calls[i].result.value.x, calls[i].result.value.y)

\* What request() gave for request r: the body it returned or the error it
\* raised.
AnswerOf(r) ==
    IF reqs[r].phase = "returned" THEN Ok(Val(reqs[r].body)) ELSE Thrown(reqs[r].error)

IsSettled(r) == reqs[r].phase \in {"returned", "raised"}

\* A call, as far as its caller sees it.
Observed(n, pc, usedPolygonFilter, result) ==
    [requests |-> n, pc |-> pc, usedPolygonFilter |-> usedPolygonFilter, result |-> result]

\* getBedrock running alone on the answers of the requests rs.
BedrockAlone(input, rs) ==
    LET first == getBedrockFirstOptions(input.bbox, input.limit, input.corridor)
        upf == IsDef(first.polygonWkt)
        try == getBedrockTry(AnswerOf(rs[1]), upf)
        retried == getBedrockRetried(AnswerOf(rs[2]))
    IN  IF ~IsSettled(rs[1]) THEN Observed(1, "awaiting", upf, Pending)
        ELSE IF try.ok THEN Observed(1, "done", upf, Returned(try.value))
        ELSE IF ~upf
        THEN Observed(1, "done", upf, Raised(PlainError("Failed to fetch bedrock data")))
        ELSE IF Len(rs) < 2 THEN Observed(2, "unreachable", upf, Pending)
        ELSE IF ~IsSettled(rs[2]) THEN Observed(2, "awaiting", upf, Pending)
        ELSE IF retried.ok THEN Observed(2, "done", upf, Returned(retried.value))
        ELSE Observed(2, "done", upf, Raised(retried.error))

\* A point query running alone on the answer of the request rs[1].
PointQueryAlone(args, rs) ==
    LET info == getFeatureInfoSettled(AnswerOf(rs[1]),
                                      PointMethods[args.dataType].baseUrl)
    IN  IF ~IsSettled(rs[1]) THEN Observed(1, "awaiting", FALSE, Pending)
        ELSE IF ~info.ok THEN Observed(1, "done", FALSE, Raised(info.error))
        ELSE Observed(1, "done", FALSE,
                      Returned(queryPointHandlerOutput(args, transformInfo(info.value))))

\* The requests a call running alone sends: their URL and parameters.
SentAlone(i) ==
    LET c == calls[i]
        rs == RequestSeqOf(i)
    IN  IF c.op = "queryPoint"
        THEN <<getFeatureInfoParams(FacadeWmsClient(PointMethods[Val(c.args).dataType].baseUrl),
                  PointQueryOptions(PointMethods[Val(c.args).dataType].layers,
                      [x |-> Projected(Val(c.args).latitude, Val(c.args).longitude)[1],
                       y |-> Projected(Val(c.args).latitude, Val(c.args).longitude)[2]]))>>
        ELSE LET input == Val(c.input)
             IN  <<getItemsParams(getBedrockFirstOptions(input.bbox, input.limit,
                                                         input.corridor)),
                   getItemsParams(getBedrockRetryOptions(input.bbox, input.limit))>>

\* Call i is where it would be had it run alone on the answers its own
\* requests got.
MatchesAlone(i) ==
    LET c == calls[i]
        rs == RequestSeqOf(i)
        alone == IF c.op = "queryPoint" THEN PointQueryAlone(Val(c.args), rs)
                 ELSE BedrockAlone(Val(c.input), rs)
    IN  IF c.pc = "idle" THEN rs = <<>>
        ELSE IF c.pc = "done" /\ rs = <<>>
        THEN /\ c.op = "queryPoint"
             /\ c.result = Raised(wgs84ToSweref99([latitude |-> Val(c.args).latitude,
                                                   longitude |-> Val(c.args).longitude]).error)
        ELSE /\ Len(rs) = alone.requests
             /\ c.pc = alone.pc
             /\ c.result = alone.result
             /\ c.op # "queryPoint" => c.usedPolygonFilter = alone.usedPolygonFilter
             /\ \A k \in 1..Len(rs) :
                   reqs[rs[k]].params = SearchParams(SentAlone(i)[k])

\* The part of the state that belongs to call j: the call and its requests.
OwnState(cs, rq, j) == <<cs[j], SelectSeq(rq, LAMBDA q : q.owner = j)>>

\* A step leaves every call but one, and the requests of every call but that
\* one, as they were.
StepIsLocal ==
    \E i \in DOMAIN calls :
        \A j \in DOMAIN calls \ {i} : OwnState(calls', reqs', j) = OwnState(calls, reqs, j)

\* C22: with two facade calls running at once, getBedrock calls or point
\* queries, and their requests interleaved in any way, every step changes one
\* call and its requests only, and each call's result, usedPolygonFilter flag
\* and requests are those it would have running alone on the answers its own
\* requests got; a failure or timeout of a request changes nothing in the
\* other call.
C22_ConcurrentCallsAreIsolated ==
    /\ [](\A i \in DOMAIN calls : MatchesAlone(i))
    /\ [][StepIsLocal]_vars

C22_Witness ==
    /\ DOMAIN calls = ConcurrentCalls
    /\ calls[1].op = "getBedrock" /\ calls[1].pc = "done"
    /\ calls[1].result.kind = "returned"
    /\ ~calls[1].result.value.usedPolygonFilter
    /\ calls[2].op = "queryPoint" /\ calls[2].pc = "done"
    /\ calls[2].result.kind = "raised"
    /\ Len(reqs) = 3
    /\ reqs[1].owner = 1 /\ reqs[2].owner = 2 /\ reqs[3].owner = 1
    /\ reqs[1].cause = "http" /\ reqs[2].cause = "timeout" /\ reqs[3].phase = "returned"

\* The box that a BBOX list names, by the axis order it is written in.
BoxOfList(list, northingFirst) ==
    IF northingFirst
    THEN [minX |-> list[2], minY |-> list[1], maxX |-> list[4], maxY |-> list[3]]
    ELSE [minX |-> list[1], minY |-> list[2], maxX |-> list[3], maxY |-> list[4]]

\* The boxes sent upstream for a handler call: the BBOX of the GetMap URL a
\* map handler returned, and the BBOX or bbox of the requests issued for it.
SentBoxes(i) ==
    {BoxOfList(calls[i].result.value.map_url.params.BBOX,
               calls[i].result.value.map_url.params.VERSION = "1.3.0") :
        k \in {k \in {1} : calls[i].op = "mapTool" /\ calls[i].result.kind = "returned"}}
    \cup {BoxOfList(reqs[r].params.BBOX, reqs[r].params.VERSION = "1.3.0") :
            r \in {r \in RequestsOf(i) : "BBOX" \in DOMAIN reqs[r].params}}
    \cup {BoxOfList(reqs[r].params.bbox, FALSE) :
            r \in {r \in RequestsOf(i) : "bbox" \in DOMAIN reqs[r].params}}

HandlerCalls ==
    {i \in DOMAIN calls : calls[i].op \in {"getBedrockHandler", "mapTool", "queryPoint"}}

\* C23: every bounding box sent upstream for a call of the bedrock handler, of
\* a map handler or of the point-query handler has minX < maxX, minY < maxY
\* and both corners within x in [200000, 1000000], y in [6100000, 7700000].
C23_SentBboxesAreValid ==
    \A i \in HandlerCalls : \A box \in SentBoxes(i) : BoundingBoxInvariant(box)

\* The calls of the bedrock handler and of the map handlers that build a
\* corridor: hasCorridorParams holds and the points were converted.
CorridorHandlerCalls ==
    {i \in DOMAIN calls :
        /\ calls[i].op \in {"getBedrockHandler", "mapTool"}
        /\ hasCorridorParams(Val(calls[i].args))
        /\ wgs84CoordinatesToSweref99(Val(Val(calls[i].args).coordinates)).ok}

\* The corridor such a call passes to corridorToBoundingBox, and in the
\* bedrock handler on to getBedrock and corridorToWktPolygon.
CorridorPassed(i) ==
    ArgsCorridor(Val(calls[i].args),
                 wgs84CoordinatesToSweref99(Val(Val(calls[i].args).coordinates)).value)

\* C24: the corridor that the bedrock handler or a map handler passes on has
\* bufferMeters > 0: 500 when the caller gave none, and never a value of 0 or
\* below that the caller gave.
C24_BufferIsPositive ==
    \A i \in CorridorHandlerCalls :
        /\ CorridorPassed(i).bufferMeters > 0
        /\ ~IsDef(Val(calls[i].args).bufferMeters) => CorridorPassed(i).bufferMeters = 500
        /\ (calls[i].op = "getBedrockHandler" /\ IsDef(calls[i].input)) =>
              /\ Val(calls[i].input).corridor = Some(CorridorPassed(i))
              /\ Val(Val(calls[i].input).corridor).bufferMeters > 0

\* C25: getBedrock issues its second request, the bbox retry, only after its
\* polygon-filter request failed: once the first request has returned its
\* body, no second request is issued, however the shaping of the features
\* goes.
C25_RetryOnlyAfterFailedRequest ==
    \A i \in BedrockCalls :
        LET rs == RequestSeqOf(i)
        IN  /\ Len(rs) = 2 => reqs[rs[1]].phase = "raised"
            /\ reqs[rs[1]].phase = "returned" => Len(rs) = 1

\* The calls of a shaping function on a response that has a feature.
ShapingCalls ==
    {i \in DOMAIN calls : calls[i].op = "pointTransform"
                          /\ HasFeature(Val(calls[i].args).response)}

\* Whether a shaping function can use the value v for a field: the well
\* fields and the radon value ask for a type, the other fields for a value
\* that is neither empty nor zero.
Usable(dataType, field, v) ==
    IF dataType \in {"well", "radon_risk"}
    THEN v.kind = (IF field = "usage" THEN "string" ELSE "number")
    ELSE IF v.kind = "string" THEN v.text # "" ELSE v.num # 0

\* The value a field shows for the candidate value v (the vulnerability class
\* is shown through its class names).
Shown(dataType, v) ==
    IF dataType = "groundwater_vulnerability" THEN VulnerabilityClass(v) ELSE v

\* Field `field` of the record of call i is taken from the first of its
\* candidates in `chosen`, and is undefined only if `chosen` is empty.
TakesFirstOf(i, field, chosen) ==
    LET dataType == Val(calls[i].args).dataType
        props == FirstProps(Val(calls[i].args).response)
        keys == CandidateKeys[dataType][field]
        got == Val(calls[i].result.value)[field]
    IN  /\ chosen # {} => got = Some(Shown(dataType, props[keys[MinOf(chosen)]]))
        /\ got = None => chosen = {}

TransportCalls == {i \in DOMAIN calls : calls[i].op = "request"}

\* A supplied parameter whose value is neither undefined nor the empty string.
Sendable(key, o) == Len(o) > 0 /\ (key \in {"LAYERS", "map"} => o[1] # "")

\* The query parameters written in the base URLs that have any.
QueryWrittenIn(baseUrl) ==
    IF baseUrl = "https://example.test/cgi-bin/mapserv?map=sgu.map"
    THEN [key \in {"map"} |-> "sgu.map"]
    ELSE [key \in {} |-> ""]

\* C27: request() sends exactly the supplied parameters whose value is neither
\* undefined nor the empty string, each once with its value (the number 0
\* included); with an empty path it fetches the base URL itself and keeps the
\* query parameters of the base URL that no sent parameter names, and with a
\* path it joins the path to the base URL.
C27_TransportParameters ==
    \A i \in TransportCalls :
        LET target == Val(calls[i].args).target
            supplied == Val(calls[i].args).params
            r == RequestSeqOf(i)[1]
            sent == reqs[r].params
            sendable == {key \in DOMAIN supplied : Sendable(key, supplied[key])}
            written == IF target.path = "" THEN QueryWrittenIn(target.baseUrl)
                       ELSE [key \in {} |-> ""]
        IN  /\ Len(RequestSeqOf(i)) = 1
            /\ DOMAIN sent = sendable \cup DOMAIN written
            /\ \A key \in sendable : sent[key] = supplied[key][1]
            /\ \A key \in DOMAIN written \ sendable : sent[key] = written[key]
            /\ reqs[r].url = IF target.path = "" THEN <<target.baseUrl>>
                             ELSE <<target.baseUrl, "/", target.path>>

C27_Witness ==
    \E i \in TransportCalls :
        /\ Val(calls[i].args).target.baseUrl = "https://example.test/cgi-bin/mapserv?map=sgu.map"
        /\ Val(calls[i].args).params =
              [LAYERS |-> Some(""), limit |-> Some(0), map |-> None]
        /\ DOMAIN reqs[RequestSeqOf(i)[1]].params = {"limit", "map"}
        /\ reqs[RequestSeqOf(i)[1]].params.limit = 0
        /\ reqs[RequestSeqOf(i)[1]].params.map = "sgu.map"
        /\ calls[i].result.kind = "returned"

\* The version a WMS client was configured with, 1.3.0 when none was given.
ConfiguredVersion(config) == IF config.version = None THEN "1.3.0" ELSE config.version[1]

\* The calls made on a WMS client created with a configuration of its own.
WmsClientCalls ==
    {i \in DOMAIN calls :
        calls[i].op \in {"getMapUrl", "getLegendUrl", "getFeatureInfo", "getCapabilities"}}

\* C28: every URL that getMapUrl or getLegendUrl builds and every request
\* that getFeatureInfo or getCapabilities issues carries VERSION equal to the
\* version the client was configured with, 1.3.0 when none was given.
C28_VersionIsConfigured ==
    \A i \in WmsClientCalls :
        LET version == ConfiguredVersion(Val(calls[i].args).config)
        IN  /\ calls[i].op \in {"getMapUrl", "getLegendUrl"} =>
                  calls[i].result.value.params.VERSION = version
            /\ \A r \in RequestsOf(i) : reqs[r].params.VERSION = version

\* The calls of a map handler that returned a map response.
MapResponses ==
    {i \in DOMAIN calls : calls[i].op = "mapTool" /\ calls[i].result.kind = "returned"}

\* The layer identifiers the facade binds to a map layer.
LayersOf(legendKey) == MapMethods[legendKey].layers

\* What a map response shows besides the versions of its two URLs.
MapResponseEchoes(i) ==
    LET args == Val(calls[i].args)
        response == calls[i].result.value
    IN  /\ response.map_url.base = response.legend_url.base
        /\ response.legend_url.params.REQUEST = "GetLegendGraphic"
        /\ response.legend_url.params.LAYER = LayersOf(args.legendKey)[1]
        /\ response.map_url.params.LAYERS = LayersOf(args.legendKey)
        /\ response.layers = LayersOf(args.legendKey)
        /\ response.coordinate_system = "EPSG:3006"
        /\ BoxOfList(response.map_url.params.BBOX,
                     response.map_url.params.VERSION = "1.3.0") = response.bbox
        /\ response.bbox = processMapToolInput(args).value

\* C29: in the map response of every map layer, map_url and legend_url
\* address the same endpoint and name the same WMS VERSION, legend_url names
\* the first layer identifier of the layer, and the response carries the bbox
\* the map was asked for, the layer identifiers and coordinate_system
\* EPSG:3006.
C29_MapAndLegendAgree ==
    \A i \in MapResponses :
        /\ MapResponseEchoes(i)
        /\ calls[i].result.value.map_url.params.VERSION =
              calls[i].result.value.legend_url.params.VERSION

\* The calls of the bedrock handler and of the map-input processing.
GeometryHandlerCalls ==
    {i \in DOMAIN calls : calls[i].op \in {"getBedrockHandler", "mapTool"}}

\* The caller gave a coordinates array with fewer than 2 points.
GaveShortCorridor(i) ==
    /\ IsDef(Val(calls[i].args).coordinates)
    /\ Len(Val(Val(calls[i].args).coordinates)) < 2

\* The bbox a call went on with: the one the bedrock handler passed to
\* getBedrock, or the one in the map response.
BboxUsed(i) ==
    IF calls[i].op = "getBedrockHandler" THEN Val(calls[i].input).bbox
    ELSE calls[i].result.value.bbox

\* The call went on to a query: the bedrock handler called getBedrock, or the
\* map-input processing returned a bbox and the map URL was built.
Proceeded(i) ==
    IF calls[i].op = "getBedrockHandler" THEN IsDef(calls[i].input)
    ELSE calls[i].result.kind = "returned"

\* C30: a call of the bedrock handler or of the map-input processing given a
\* coordinates array with fewer than 2 points ends with a ValidationError and
\* issues no query, with or without complete bbox parameters; given both a
\* corridor of at least 2 points and a bbox, the bbox used is the one of the
\* corridor.
C30_ShortCorridorIsRejected ==
    \A i \in GeometryHandlerCalls :
        /\ GaveShortCorridor(i) =>
              /\ EndedWithValidationError(i)
              /\ ~Proceeded(i)
              /\ RequestsOf(i) = {}
        /\ (hasCorridorParams(Val(calls[i].args)) /\ hasBboxParams(Val(calls[i].args))
              /\ Proceeded(i)) =>
              BboxUsed(i) = corridorToBoundingBox(CorridorPassed(i)).value

====
